---- MODULE Spec2Model ----
(***************************************************************************)
(* Control plane (Listener, Router, LocalController, ConfigRouter, line    *)
(* wire format) and tunnel (portForwarder) of bladerunner.                 *)
(*                                                                         *)
(* Text is modelled as a sequence of lexemes: a Go string is a sequence of *)
(* atoms, each atom one byte (" ", ".", "=", "v", a digit, the newline) or *)
(* an opaque word that contains none of those bytes ("ping", "error:").    *)
(***************************************************************************)
EXTENDS Integers, Sequences, FiniteSets, TLC

\* ------------------------------------------------------------------ text
SP == " "
NL == "<LF>"
DOT == "."
EQ == "="
Digits == <<"0", "1", "2", "3", "4", "5", "6", "7", "8", "9">>

IsSpace(a) == a \in {SP, NL}

\* s[i:] and s[:i] with Go's 0-based offsets
From(s, i) == SubSeq(s, i + 1, Len(s))
Upto(s, i) == SubSeq(s, 1, i)

\* strings.Index / strings.IndexByte: 0-based offset of the first a, or -1
IndexOf(s, a) ==
  IF \E i \in 1..Len(s) : s[i] = a
  THEN (CHOOSE i \in 1..Len(s) : s[i] = a /\ \A j \in 1..(i - 1) : s[j] # a) - 1
  ELSE -1

RECURSIVE TrimLeft(_)
TrimLeft(s) == IF s # <<>> /\ IsSpace(s[1]) THEN TrimLeft(Tail(s)) ELSE s

RECURSIVE TrimRight(_)
TrimRight(s) ==
  IF s # <<>> /\ IsSpace(s[Len(s)]) THEN TrimRight(Upto(s, Len(s) - 1)) ELSE s

\* strings.TrimSpace
TrimSpace(s) == TrimRight(TrimLeft(s))

\* strings.Fields: the maximal runs of non-space atoms
RECURSIVE Fields(_)
Fields(s) ==
  LET t == TrimLeft(s)
      n == IF \E i \in 1..Len(t) : IsSpace(t[i])
           THEN CHOOSE i \in 1..Len(t) : IsSpace(t[i]) /\ \A j \in 1..(i - 1) : ~IsSpace(t[j])
           ELSE Len(t) + 1
  IN IF t = <<>> THEN <<>> ELSE <<Upto(t, n - 1)>> \o Fields(From(t, n - 1))

HasPrefix(s, p) == Len(s) >= Len(p) /\ Upto(s, Len(p)) = p

DigitValue(a) == (CHOOSE i \in 1..10 : Digits[i] = a) - 1

IsDigit(a) == \E i \in 1..10 : Digits[i] = a

\* strconv.Atoi on an unsigned decimal: [ok, v]
RECURSIVE AtoiValue(_)
AtoiValue(s) ==
  IF s = <<>> THEN 0 ELSE 10 * AtoiValue(Upto(s, Len(s) - 1)) + DigitValue(s[Len(s)])

Atoi(s) ==
  IF s # <<>> /\ \A i \in 1..Len(s) : IsDigit(s[i])
  THEN [ok |-> TRUE, v |-> AtoiValue(s)]
  ELSE [ok |-> FALSE, v |-> 0]

\* fmt's %d of a non-negative int
RECURSIVE Itoa(_)
Itoa(n) == IF n < 10 THEN <<Digits[n + 1]>> ELSE Itoa(n \div 10) \o <<Digits[(n % 10) + 1]>>

\* ------------------------------------------------------------- messages
Message(v, c, r, e) == [Version |-> v, Command |-> c, Response |-> r, Error |-> e]

RespMsg(r) == Message(0, <<>>, r, <<>>)
ErrMsg(e) == Message(0, <<>>, <<>>, e)

ErrorPrefix == <<"error:", SP>>

\* an Encode without the `empty message` case: it writes the line it has
LineEncodeBlank(msg) ==
  LET body == IF msg.Error # <<>> THEN ErrorPrefix \o msg.Error
              ELSE IF msg.Response # <<>> THEN msg.Response
              ELSE msg.Command
      line == IF msg.Version > 0 THEN <<"v">> \o Itoa(msg.Version) \o <<SP>> \o body ELSE body
  IN [err |-> FALSE, data |-> line \o <<NL>>]

\* LineFormat.Encode: [err, data]; data is what is written to the writer
LineEncode(msg) ==
  LET body == IF msg.Error # <<>> THEN ErrorPrefix \o msg.Error
              ELSE IF msg.Response # <<>> THEN msg.Response
              ELSE msg.Command
      line == IF msg.Version > 0 THEN <<"v">> \o Itoa(msg.Version) \o <<SP>> \o body ELSE body
  IN IF msg.Error = <<>> /\ msg.Response = <<>> /\ msg.Command = <<>>
     THEN [err |-> TRUE, data |-> <<>>]
     ELSE [err |-> FALSE, data |-> line \o <<NL>>]

\* LineFormat.Decode of the bytes received so far: [err, msg]
LineDecode(data) ==
  LET nl == IndexOf(data, NL)
      text0 == TrimSpace(Upto(data, nl + 1))
      idx == IndexOf(text0, SP)
      num == IF idx > 0 THEN Atoi(SubSeq(text0, 2, idx)) ELSE [ok |-> FALSE, v |-> 0]
      hasV == Len(text0) > 1 /\ text0[1] = "v" /\ idx > 0 /\ num.ok
      version == IF hasV THEN num.v ELSE 0
      text == IF hasV THEN From(text0, idx + 1) ELSE text0
  IN IF nl < 0 THEN [err |-> TRUE, msg |-> Message(0, <<>>, <<>>, <<>>)]
     ELSE IF HasPrefix(text, ErrorPrefix)
          THEN [err |-> FALSE, msg |-> Message(version, <<>>, <<>>, From(text, Len(ErrorPrefix)))]
          ELSE [err |-> FALSE, msg |-> Message(version, text, text, <<>>)]

\* ------------------------------------------------------------- requests
NoArgs == [k \in {} |-> <<>>]

\* the loop of NewRequest over parts[1:], i the 0-based position in parts[1:]
RECURSIVE ParseArgs(_, _)
ParseArgs(parts, n) ==
  IF n = 0 THEN NoArgs
  ELSE LET part == parts[n]
           idx == IndexOf(part, EQ)
           prev == ParseArgs(parts, n - 1)
           key == IF idx > 0 THEN Upto(part, idx) ELSE Itoa(n - 1)
           val == IF idx > 0 THEN From(part, idx + 1) ELSE part
       IN [k \in (DOMAIN prev) \cup {key} |-> IF k = key THEN val ELSE prev[k]]

NewRequest(raw) ==
  LET parts == Fields(raw)
  IN IF Len(parts) = 0
     THEN [Command |-> <<>>, Args |-> NoArgs, Raw |-> raw]
     ELSE [Command |-> parts[1], Args |-> ParseArgs(Tail(parts), Len(parts) - 1), Raw |-> raw]

\* req.Args[k], the zero value when the key is absent
Arg(req, k) == IF k \in DOMAIN req.Args THEN req.Args[k] ELSE <<>>

\* --------------------------------------------------------------- router
CmdPing == <<"ping">>
CmdStatus == <<"status">>
CmdStop == <<"stop">>

RespOK == <<"ok">>
RespPong == <<"pong">>
StatusRunning == <<"running">>
StatusStopped == <<"stopped">>

NoEntries == [k \in {} |-> ""]

\* The routers of a supervisor: the Listener's router with the Controller's
\* commands registered and the ConfigRouter's router mounted at "config".
Routers ==
  [top |-> [handlers |-> (CmdPing :> "ping" @@ CmdStatus :> "status" @@ CmdStop :> "stop"),
            prefix |-> (<<"config">> :> "config")],
   config |-> [handlers |-> (<<"get">> :> "get" @@ <<"set">> :> "set" @@ <<"keys">> :> "keys"),
               prefix |-> NoEntries]]

\* the Message Dispatch returns when nothing matches
UnknownCommand(req) == ErrMsg(<<"unknown command:", SP>> \o req.Command)

\* a Dispatch that looks only in the flat table
DispatchInFlat(rs, r, req) ==
  IF req.Command \in DOMAIN rs[r].handlers
  THEN [handler |-> rs[r].handlers[req.Command], req |-> req, msg |-> RespMsg(<<>>)]
  ELSE [handler |-> "", req |-> req, msg |-> UnknownCommand(req)]

\* Router.Dispatch on router r of the routers rs, up to the call of the
\* handler: [handler, req, msg], handler "" when no handler is found (msg is
\* then the reply)
RECURSIVE DispatchIn(_, _, _)
DispatchIn(rs, r, req) ==
  LET idx == IndexOf(req.Command, DOT)
      pre == Upto(req.Command, idx)
      subReq == [Command |-> From(req.Command, idx + 1), Args |-> req.Args, Raw |-> req.Raw]
  IN IF req.Command \in DOMAIN rs[r].handlers
     THEN [handler |-> rs[r].handlers[req.Command], req |-> req, msg |-> RespMsg(<<>>)]
     ELSE IF idx > 0 /\ pre \in DOMAIN rs[r].prefix
          THEN DispatchIn(rs, rs[r].prefix[pre], subReq)
          ELSE [handler |-> "", req |-> req, msg |-> UnknownCommand(req)]

\* Router.Dispatch on a router of the supervisor
Dispatch(r, req) == DispatchIn(Routers, r, req)

\* a Router on which nothing was called yet
NoResult == [handler |-> "", req |-> NewRequest(<<>>), msg |-> RespMsg(<<>>)]

IdleRoute ==
  [op |-> "idle", setup |-> "supervisor", raw |-> <<>>, res |-> NoResult, cmds |-> <<>>,
   words |-> <<>>]

\* --------------------------------------------------------------- config
\* the keys of ConfigRouter.entries, in byte order
ConfigKeys ==
  <<"arch", "base-image-path", "base-image-url", "cloud-init-iso", "cpus",
    "disk-size-gib", "gui", "hostname", "local-api-port", "local-ssh-port",
    "log-path", "memory-gib", "name", "network-mode", "pid", "ssh-config-path",
    "ssh-private-key-path", "ssh-user", "state-dir", "vm-dir">>

\* a getter table that lacks the entry of pid
ConfigKeySetNoPid == {ConfigKeys[i] : i \in 1..Len(ConfigKeys)} \ {"pid"}

\* the keys of ConfigRouter.entries
ConfigKeySet == {ConfigKeys[i] : i \in 1..Len(ConfigKeys)}

\* configEntry.deferred
Deferred == {"ssh-config-path", "ssh-private-key-path", "base-image-path"}

\* ConfigKeyRegistry: the metadata of the known keys, in the order of the list
Meta(k, vm, w) == [Key |-> k, RequiresVM |-> vm, Writable |-> w]

ConfigKeyRegistry ==
  <<Meta("arch", FALSE, FALSE), Meta("base-image-path", TRUE, FALSE),
    Meta("base-image-url", FALSE, TRUE), Meta("cloud-init-iso", FALSE, FALSE),
    Meta("cpus", FALSE, FALSE), Meta("disk-size-gib", FALSE, FALSE),
    Meta("gui", FALSE, FALSE), Meta("hostname", FALSE, FALSE),
    Meta("local-api-port", FALSE, FALSE), Meta("local-ssh-port", FALSE, FALSE),
    Meta("log-path", FALSE, FALSE), Meta("memory-gib", FALSE, FALSE),
    Meta("name", FALSE, FALSE), Meta("network-mode", FALSE, FALSE),
    Meta("pid", TRUE, FALSE), Meta("ssh-config-path", TRUE, FALSE),
    Meta("ssh-private-key-path", TRUE, FALSE), Meta("ssh-user", FALSE, FALSE),
    Meta("state-dir", FALSE, FALSE), Meta("vm-dir", FALSE, FALSE)>>

RegistryKeys == {ConfigKeyRegistry[i].Key : i \in 1..Len(ConfigKeyRegistry)}
Writable == {ConfigKeyRegistry[i].Key : i \in {j \in 1..Len(ConfigKeyRegistry) : ConfigKeyRegistry[j].Writable}}
RequiresVM == {ConfigKeyRegistry[i].Key : i \in {j \in 1..Len(ConfigKeyRegistry) : ConfigKeyRegistry[j].RequiresVM}}

\* the rendered values of config.Default and of the process
DefaultConfig ==
  [k \in ConfigKeySet |->
     CASE k = "arch" -> <<"arm64">>
       [] k = "base-image-path" -> <<>>
       [] k = "base-image-url" -> <<"https://image">>
       [] k = "cloud-init-iso" -> <<"/state/cloud-init", DOT, "iso">>
       [] k = "cpus" -> <<"4">>
       [] k = "disk-size-gib" -> <<"6", "4">>
       [] k = "gui" -> <<"true">>
       [] k = "hostname" -> <<"bladerunner">>
       [] k = "local-api-port" -> <<"1", "8", "4", "4", "3">>
       [] k = "local-ssh-port" -> <<"6", "0", "2", "2">>
       [] k = "log-path" -> <<"/state/bladerunner", DOT, "log">>
       [] k = "memory-gib" -> <<"8">>
       [] k = "name" -> <<"bladerunner">>
       [] k = "network-mode" -> <<"shared">>
       [] k = "pid" -> <<"4", "2">>
       [] k = "ssh-config-path" -> <<>>
       [] k = "ssh-private-key-path" -> <<>>
       [] k = "ssh-user" -> <<"incus">>
       [] k = "state-dir" -> <<"/state">>
       [] k = "vm-dir" -> <<"/state">>]

\* byte-order comparison of two key names
KeyRank(w) == CHOOSE i \in 1..Len(ConfigKeys) : ConfigKeys[i] = w
KeyLess(a, b) == KeyRank(a) < KeyRank(b)

\* sort.Strings of the keys in S
RECURSIVE SortStrings(_)
SortStrings(S) ==
  IF S = {} THEN <<>>
  ELSE LET m == CHOOSE x \in S : \A y \in S \ {x} : KeyLess(x, y)
       IN <<m>> \o SortStrings(S \ {m})

\* strings.Join(words, " ")
RECURSIVE Join(_)
Join(ws) ==
  IF ws = <<>> THEN <<>>
  ELSE IF Len(ws) = 1 THEN <<ws[1]>> ELSE <<ws[1], SP>> \o Join(Tail(ws))

\* a handleGet that reads the values the configuration had when the router
\* was created
handleGetSnapshot(req, c) ==
  LET key == Arg(req, <<"0">>)
  IN IF key = <<>> THEN ErrMsg(<<"usage: config.get <key>">>)
     ELSE IF ~(Len(key) = 1 /\ key[1] \in ConfigKeySet)
          THEN ErrMsg(<<"unknown config key:", SP>> \o key)
          ELSE IF key[1] \in Deferred
               THEN ErrMsg(key \o <<SP, "not available", SP, "(VM may not have started yet)">>)
               ELSE RespMsg(c[key[1]])

\* ConfigRouter.handleGet over the live values c
handleGet(req, c) ==
  LET key == Arg(req, <<"0">>)
  IN IF key = <<>> THEN ErrMsg(<<"usage: config.get <key>">>)
     ELSE IF ~(Len(key) = 1 /\ key[1] \in ConfigKeySet)
          THEN ErrMsg(<<"unknown config key:", SP>> \o key)
          ELSE IF c[key[1]] = <<>> /\ key[1] \in Deferred
               THEN ErrMsg(key \o <<SP, "not available", SP, "(VM may not have started yet)">>)
               ELSE RespMsg(c[key[1]])

\* ConfigRouter.handleSet
handleSet(req, c) == ErrMsg(<<"config.set is not yet supported">>)

\* ConfigRouter.handleKeys
handleKeys(req, c) == RespMsg(Join(SortStrings(ConfigKeySet)))

\* ------------------------------------------------------- control plane
MaxListeners == 2
MaxConns == 2

Lids == 1..MaxListeners
Cids == 1..MaxConns

NoFile == <<"none">>
StaleFile == <<"stale">>
FileOf(l) == <<"listener", l>>

VARIABLES
  sockFile,   \* what is at the socket path: NoFile, StaleFile (left by a killed
              \* supervisor) or the Listener whose Listen created the file
  lst,        \* lst[l]: "unbuilt", "failed" (NewListener returned an error),
              \* "open" (netListen is listening) or "closed"
  startPc,    \* startPc[l]: "notstarted", "loop" (Start is in its accept loop), "returned"
  ctxDone,    \* ctxDone[l]: the context passed to Start is cancelled
  backlog,    \* backlog[l]: the connections dialled and not yet accepted
  conn,       \* conn[c]: a client connection and the handler serving it
  stopped,    \* stopped[l]: LocalController.stopped
  mu,         \* mu[l]: the connection whose handler holds LocalController.mu, or 0
  stopCalls,  \* stopCalls[l]: how often the stop callback has run and returned
  cfg         \* cfg[l]: the live values the ConfigRouter's getters read

ctlVars == <<sockFile, lst, startPc, ctxDone, backlog, conn, stopped, mu, stopCalls, cfg>>

VARIABLES
  fLn,        \* portForwarder.ln: "none" before Start, "open", "closed"
  fStop,      \* portForwarder.stop is closed
  fAccept,    \* the accept loop of Start: "none", "running", "exited"
  fClose,     \* portForwarder.Close: "idle", "signalled" (stop closed), "waiting"
              \* (listener closed, in wg.Wait), "returned"
  fWg,        \* the counter of portForwarder.wg
  fBacklog,   \* the clients connected to the listen address and not yet accepted
  fc          \* fc[k]: a forwarded connection, its handler and its two copy tasks

fwdVars == <<fLn, fStop, fAccept, fClose, fWg, fBacklog, fc>>

VARIABLES
  cl          \* a call of a Client method: its position in sendCommand, what
              \* the transport did to it, and what it returned

cliVars == <<cl>>

VARIABLES
  wire        \* a LineFormat at work on a writer: the Message handed to Encode,
              \* what Encode returned and wrote, what Decode made of it

wireVars == <<wire>>

VARIABLES
  cfgMu       \* cfgMu[l]: ConfigRouter.mu, a sync.RWMutex: w, a writer holds
              \* it; r, the number of readers that hold it

lockVars == <<cfgMu>>

VARIABLES
  rt          \* a Router under test: the routers built (setup), the request
              \* line dispatched on the top one (raw) and what Dispatch did
              \* (res), or the names Commands returned (cmds); for a line
              \* given to NewRequest alone, the tokens it was made of (words)
              \* and the Request (res.req)

routeVars == <<rt>>

RouteInit == rt = IdleRoute

VARIABLES
  ctor        \* ctor[l]: where the NewListenerWithConfig that builds Listener l
              \* is when its calls are interleaved with another construction:
              \* "idle", "probed" (after the dial), "cleaned" (after Cleanup),
              \* "done"

ctorVars == <<ctor>>

CtorInit == ctor = [l \in Lids |-> "idle"]

VARIABLES
  sup         \* sup[l]: how many of the steps of runStart that follow
              \* `go ctrlServer.Start(ctx)` the supervisor of Listener l has made

supVars == <<sup>>

SupInit == sup = [l \in Lids |-> 0]

\* the callers of Runner.Stop
MaxStops == 2
Stoppers == 1..MaxStops

\* the port forwarders of a Runner, in the order startForwarders starts them
ForwarderNames == <<"ssh", "incus-api">>

VARIABLES
  rn          \* the Runner: pc, where startForwarders is ("init", "ssh" after
              \* the first Start, "done", "failed"); started, the forwarders
              \* whose Start succeeded; forwarders, r.forwarders; once,
              \* r.stopOnce ("idle", "running", "done"); idx, the forwarders
              \* the loop of Stop has closed; tries, the stop requests sent to
              \* the VM; closes[f], how often Close was called on forwarder f;
              \* stop[s], where caller s of Stop is ("idle", "inside",
              \* "returned")

runVars == <<rn>>

RunInit ==
  rn = [pc |-> "init", started |-> {}, forwarders |-> <<>>, once |-> "idle",
        idx |-> 0, tries |-> 0,
        closes |-> [f \in {"ssh", "incus-api"} |-> 0],
        stop |-> [s \in Stoppers |-> "idle"]]

NoMsg == Message(0, <<>>, <<>>, <<>>)

NoRoute == [handler |-> "", req |-> NewRequest(<<>>), msg |-> NoMsg]

IdleConn ==
  [pc |-> "idle", lid |-> 0, inbuf |-> <<>>, nread |-> 0, route |-> NoRoute, resp |-> NoMsg,
   out |-> <<>>, nwrites |-> 0, werr |-> FALSE, open |-> FALSE, invoked |-> FALSE]

\* request lines a client sends
LinePing == CmdPing
LineStatus == CmdStatus
LineStop == CmdStop
LineGetHostname == <<"config", DOT, "get", SP, "hostname">>
LineGetSSHConfig == <<"config", DOT, "get", SP, "ssh-config-path">>
LineKeys == <<"config", DOT, "keys">>
LineSet == <<"config", DOT, "set", SP, "name", SP, "x">>
LineBogus == <<"bogus">>
LineConfigBogus == <<"config", DOT, "bogus">>
LineGet(k) == <<"config", DOT, "get", SP, k>>
LineSetTo(k, v) == <<"config", DOT, "set", SP, k, SP>> \o v
NewValue == <<"https://mirror/custom">>
LineGetNoKey == <<"config", DOT, "get">>
GetLines == {LineGet(k) : k \in RequiresVM \cup Deferred \cup {"cpus"}} \cup {LineGetNoKey}
\* TestConfigSetErrors: no key, no value, a key that is not registered
SetErrorLines ==
  {<<"config", DOT, "set">>, <<"config", DOT, "set", SP, "base-image-url">>,
   <<"config", DOT, "set", SP, "fake-key", SP, "val">>}
SetLines == {LineSetTo(k, NewValue) : k \in RegistryKeys} \cup SetErrorLines
LineUnmounted == <<"vm", DOT, "start">>

Lines ==
  {LinePing, LineStatus, LineStop, LineGetHostname, LineGetSSHConfig, LineKeys,
   LineSet, LineBogus, LineConfigBogus, LineUnmounted, <<>>} \cup GetLines \cup SetLines

\* what a client writes on its connection before the handler reads: nothing, a
\* line without its newline, one line, or two pipelined lines
ClientInputs ==
  {<<>>, LinePing} \cup {ln \o <<NL>> : ln \in Lines}
    \cup {LinePing \o <<NL>> \o LineStop \o <<NL>>}

\* the configurations a supervisor is built over
ConfigInits ==
  {[DefaultConfig EXCEPT !["hostname"] = h] : h \in {<<>>, <<"bladerunner">>}}

CtlInit ==
  /\ sockFile \in {NoFile, StaleFile}
  /\ lst = [l \in Lids |-> "unbuilt"]
  /\ startPc = [l \in Lids |-> "notstarted"]
  /\ ctxDone = [l \in Lids |-> FALSE]
  /\ backlog = [l \in Lids |-> <<>>]
  /\ conn = [c \in Cids |-> IdleConn]
  /\ stopped = [l \in Lids |-> FALSE]
  /\ mu = [l \in Lids |-> 0]
  /\ stopCalls = [l \in Lids |-> 0]
  /\ cfg = [l \in Lids |-> DefaultConfig]

\* a NewListener that skips the probe dial
ProbeSkipped == FALSE

\* Transport.Dial on the socket path connects: the file is there and the
\* Listener that created it is listening
ProbeAnswers == \E l \in Lids : sockFile = FileOf(l) /\ lst[l] = "open"

\* the Listener a dial of the socket path reaches
LiveListener == CHOOSE l \in Lids : sockFile = FileOf(l)

\* NewListenerWithConfig as runStart configures it (NewServer, then the config
\* router mounted): probe dial, cleanup of the stale file, listen, chmod
NewListener(l, c0) ==
  /\ lst[l] = "unbuilt"
  /\ \A k \in Lids : k < l => lst[k] # "unbuilt"
  /\ IF ProbeAnswers
     THEN /\ lst' = [lst EXCEPT ![l] = "failed"]
          /\ UNCHANGED <<sockFile, cfg>>
     ELSE /\ sockFile' = FileOf(l)
          /\ lst' = [lst EXCEPT ![l] = "open"]
          /\ cfg' = [cfg EXCEPT ![l] = c0]
  /\ UNCHANGED <<startPc, ctxDone, backlog, conn, stopped, mu, stopCalls, fwdVars, cliVars, wireVars, lockVars, routeVars, ctorVars, supVars, runVars>>

\* go Listener.Start(ctx)
StartListener(l) ==
  /\ lst[l] \in {"open", "closed"}
  /\ startPc[l] = "notstarted"
  /\ startPc' = [startPc EXCEPT ![l] = "loop"]
  /\ UNCHANGED <<sockFile, lst, ctxDone, backlog, conn, stopped, mu, stopCalls, cfg, fwdVars, cliVars, wireVars, lockVars, routeVars, ctorVars, supVars, runVars>>

\* the caller of Start cancels its context
CancelCtx(l) ==
  /\ lst[l] \in {"open", "closed"}
  /\ ~ctxDone[l]
  /\ ctxDone' = [ctxDone EXCEPT ![l] = TRUE]
  /\ UNCHANGED <<sockFile, lst, startPc, backlog, conn, stopped, mu, stopCalls, cfg, fwdVars, cliVars, wireVars, lockVars, routeVars, ctorVars, supVars, runVars>>

\* a client dials the socket path and writes its input
Dial(c) ==
  /\ conn[c].pc = "idle"
  /\ \A k \in Cids : k < c => conn[k].pc # "idle"
  /\ ProbeAnswers
  /\ backlog' = [backlog EXCEPT ![LiveListener] = Append(@, c)]
  /\ conn' = [conn EXCEPT ![c] = [IdleConn EXCEPT !.pc = "pending", !.lid = LiveListener, !.open = TRUE]]
  /\ UNCHANGED <<sockFile, lst, startPc, ctxDone, stopped, mu, stopCalls, cfg, fwdVars, cliVars, wireVars, lockVars, routeVars, ctorVars, supVars, runVars>>

\* netListen.Accept returns an error: the listening socket is closed
AcceptFails(l) == lst[l] = "closed"

\* a Start that leaves its loop as soon as the context is cancelled
StartReturnsOnCancel(l) == ctxDone[l]

\* a Start whose select has no ctx.Done() case
StartNeverReturns(l) == FALSE

\* Start returns: Accept failed and ctx.Done() is closed
StartReturns(l) == AcceptFails(l) /\ ctxDone[l]

\* Listener.Start: Accept returns a connection, go handleConnection(conn)
AcceptConn(l) ==
  /\ startPc[l] = "loop"
  /\ ~AcceptFails(l)
  /\ backlog[l] # <<>>
  /\ backlog' = [backlog EXCEPT ![l] = Tail(@)]
  /\ conn' = [conn EXCEPT ![Head(backlog[l])].pc = "decode"]
  /\ UNCHANGED <<sockFile, lst, startPc, ctxDone, stopped, mu, stopCalls, cfg, fwdVars, cliVars, wireVars, lockVars, routeVars, ctorVars, supVars, runVars>>

\* Listener.Start: Accept fails and the context is cancelled, Start returns
StartReturn(l) ==
  /\ startPc[l] = "loop"
  /\ StartReturns(l)
  /\ startPc' = [startPc EXCEPT ![l] = "returned"]
  /\ UNCHANGED <<sockFile, lst, ctxDone, backlog, conn, stopped, mu, stopCalls, cfg, fwdVars, cliVars, wireVars, lockVars, routeVars, ctorVars, supVars, runVars>>

\* Listener.Start: Accept fails and the context is not cancelled, the loop
\* logs a warning and calls Accept again
AcceptRetry(l) ==
  /\ startPc[l] = "loop"
  /\ AcceptFails(l)
  /\ ~StartReturns(l)
  /\ UNCHANGED <<ctlVars, fwdVars, cliVars, wireVars, lockVars, routeVars, ctorVars, supVars, runVars>>

\* Listener.Close: netListen.Close, then transport.Cleanup(address)
CloseListener(l) ==
  /\ lst[l] = "open"
  /\ lst' = [lst EXCEPT ![l] = "closed"]
  /\ sockFile' = NoFile
  /\ backlog' = [backlog EXCEPT ![l] = <<>>]
  /\ conn' = [c \in Cids |->
                IF conn[c].pc = "pending" /\ conn[c].lid = l
                THEN [conn[c] EXCEPT !.pc = "reset", !.open = FALSE]
                ELSE conn[c]]
  /\ UNCHANGED <<startPc, ctxDone, stopped, mu, stopCalls, cfg, fwdVars, cliVars, wireVars, lockVars, routeVars, ctorVars, supVars, runVars>>

\* ----------------------------------------------------- handleConnection
\* handleConnection from the decoded Message to the handler Dispatch selects:
\* NewRequest(msg.Command), then Router.Dispatch on the Listener's router
RouteOf(msg) == Dispatch("top", NewRequest(msg.Command))

\* wireFormat.Decode and the dispatch of its Message, for each input of a client
Decoded ==
  [in \in ClientInputs |->
     LET d == LineDecode(in)
     IN [err |-> d.err, route |-> IF d.err THEN NoRoute ELSE RouteOf(d.msg)]]

\* the route handleConnection is serving on connection c
Route(c) == conn[c].route

\* a handleConnection that keeps the connection alive and reads again
AfterEncodeKeepAlive(c) == "decode"

\* where handleConnection goes after Encode: it returns, and the deferred
\* conn.Close runs
AfterEncode(c) == "close"

\* wireFormat.Decode(conn) on the bytes in the client has written
Decode(c, in) ==
  /\ conn[c].pc = "decode"
  /\ conn' = [conn EXCEPT ![c].inbuf = in,
                          ![c].nread = IF Decoded[in].err THEN @ ELSE @ + 1,
                          ![c].route = IF Decoded[in].err THEN @ ELSE Decoded[in].route,
                          ![c].pc = IF Decoded[in].err THEN "close" ELSE "dispatch"]
  /\ UNCHANGED <<sockFile, lst, startPc, ctxDone, backlog, stopped, mu, stopCalls, cfg, fwdVars, cliVars, wireVars, lockVars, routeVars, ctorVars, supVars, runVars>>

\* a Dispatch whose reply Message is shared by the connections being served
ReplyShared(c, m) ==
  /\ conn' = [d \in Cids |->
                IF d = c THEN [conn[d] EXCEPT !.resp = m, !.pc = "encode"]
                ELSE IF conn[d].pc = "encode" THEN [conn[d] EXCEPT !.resp = m]
                ELSE conn[d]]
  /\ UNCHANGED <<sockFile, lst, startPc, ctxDone, backlog, stopped, mu, stopCalls, cfg, fwdVars, cliVars, wireVars, lockVars, routeVars, ctorVars, supVars, runVars>>

\* resp := l.router.Dispatch(ctx, req): the reply of the handler on connection c
Reply(c, m) ==
  /\ conn' = [conn EXCEPT ![c].resp = m, ![c].pc = "encode"]
  /\ UNCHANGED <<sockFile, lst, startPc, ctxDone, backlog, stopped, mu, stopCalls, cfg, fwdVars, cliVars, wireVars, lockVars, routeVars, ctorVars, supVars, runVars>>

\* Dispatch finds no handler
DispatchUnknown(c) ==
  /\ conn[c].pc = "dispatch"
  /\ Route(c).handler = ""
  /\ Reply(c, Route(c).msg)

\* the ping handler of RegisterController over LocalController.Ping
HandlePing(c) ==
  /\ conn[c].pc = "dispatch"
  /\ Route(c).handler = "ping"
  /\ Reply(c, RespMsg(RespPong))

\* a Stop and a Status that do not take the mutex
MuNotTaken(l) == TRUE

\* sync.Mutex: Lock returns when no one holds the mutex
MuFree(l) == mu[l] = 0

\* a Status that does not look at the stopped flag
StatusAlwaysRunning(l) == StatusRunning

\* LocalController.Status
Status(l) == IF stopped[l] THEN StatusStopped ELSE StatusRunning

\* the status handler of RegisterController over LocalController.Status
HandleStatus(c) ==
  /\ conn[c].pc = "dispatch"
  /\ Route(c).handler = "status"
  /\ MuFree(conn[c].lid)
  /\ Reply(c, RespMsg(Status(conn[c].lid)))

\* the values the supervisor assigns to the deferred fields once it has them
LateValue(k) ==
  CASE k = "ssh-config-path" -> <<"/state/ssh/config">>
    [] k = "ssh-private-key-path" -> <<"/state/ssh/id_ed25519">>
    [] k = "base-image-path" -> <<"/state/base", DOT, "img">>

\* the supervisor fills a field of the captured configuration, under
\* ConfigRouter.Lock, after the router was created
SupervisorAssign(l, k) ==
  /\ lst[l] = "open"
  /\ cfg[l][k] = <<>>
  /\ cfg' = [cfg EXCEPT ![l][k] = LateValue(k)]
  /\ UNCHANGED <<sockFile, lst, startPc, ctxDone, backlog, conn, stopped, mu, stopCalls, fwdVars, cliVars, wireVars, lockVars, routeVars, ctorVars, supVars, runVars>>

\* ---------------------------------------------------- ConfigRouter.mu
LockInit == cfgMu = [l \in Lids |-> [w |-> FALSE, r |-> 0]]

\* the fields runStart assigns between cfgHandler.Lock() and Unlock():
\* SetSSHKeys and SSHConfigPath
LockedKeys == {"ssh-private-key-path", "ssh-config-path"}

\* an RLock that does not wait for the writer
RLockAlways(l) == TRUE

\* sync.RWMutex: RLock returns when no writer holds the mutex
RLockFree(l) == ~cfgMu[l].w

\* sync.RWMutex: Lock returns when no one holds the mutex
LockFree(l) == ~cfgMu[l].w /\ cfgMu[l].r = 0

\* handleGet of a known key: cr.mu.RLock()
GetRLock(c) ==
  /\ conn[c].pc = "dispatch"
  /\ Route(c).handler = "get"
  /\ Len(Arg(Route(c).req, <<"0">>)) = 1
  /\ Arg(Route(c).req, <<"0">>)[1] \in ConfigKeySet
  /\ RLockFree(conn[c].lid)
  /\ cfgMu' = [cfgMu EXCEPT ![conn[c].lid].r = @ + 1]
  /\ conn' = [conn EXCEPT ![c].pc = "get_read"]
  /\ UNCHANGED <<sockFile, lst, startPc, ctxDone, backlog, stopped, mu, stopCalls, cfg, fwdVars, cliVars, wireVars, routeVars, ctorVars, supVars, runVars>>

\* handleGet: val := entry.getter(); cr.mu.RUnlock(); the reply is made of val
GetRead(c) ==
  /\ conn[c].pc = "get_read"
  /\ cfgMu' = [cfgMu EXCEPT ![conn[c].lid].r = @ - 1]
  /\ conn' = [conn EXCEPT ![c].resp = handleGet(Route(c).req, cfg[conn[c].lid]),
                          ![c].pc = "encode"]
  /\ UNCHANGED <<sockFile, lst, startPc, ctxDone, backlog, stopped, mu, stopCalls, cfg, fwdVars, cliVars, wireVars, routeVars, ctorVars, supVars, runVars>>

\* handleGet that returns before the lock: no key, or an unknown key
GetRefused(c) ==
  /\ conn[c].pc = "dispatch"
  /\ Route(c).handler = "get"
  /\ ~(/\ Len(Arg(Route(c).req, <<"0">>)) = 1
        /\ Arg(Route(c).req, <<"0">>)[1] \in ConfigKeySet)
  /\ Reply(c, handleGet(Route(c).req, cfg[conn[c].lid]))

\* the supervisor: cfgHandler.Lock()
SupervisorLock(l) ==
  /\ lst[l] = "open"
  /\ LockFree(l)
  /\ \E k \in LockedKeys : cfg[l][k] = <<>>
  /\ cfgMu' = [cfgMu EXCEPT ![l].w = TRUE]
  /\ UNCHANGED <<ctlVars, fwdVars, cliVars, wireVars, routeVars, ctorVars, supVars, runVars>>

\* the supervisor assigns a field of the captured configuration while it
\* holds the lock
SupervisorWrite(l, k) ==
  /\ cfgMu[l].w
  /\ cfg[l][k] = <<>>
  /\ cfg' = [cfg EXCEPT ![l][k] = LateValue(k)]
  /\ UNCHANGED <<sockFile, lst, startPc, ctxDone, backlog, conn, stopped, mu, stopCalls, fwdVars, cliVars, wireVars, cfgMu, routeVars, ctorVars, supVars, runVars>>

\* the supervisor: cfgHandler.Unlock()
SupervisorUnlock(l) ==
  /\ cfgMu[l].w
  /\ cfgMu' = [cfgMu EXCEPT ![l].w = FALSE]
  /\ UNCHANGED <<ctlVars, fwdVars, cliVars, wireVars, routeVars, ctorVars, supVars, runVars>>

\* a set handler that stores the value before it reports its error
HandleConfigClobbers(c) ==
  /\ conn[c].pc = "dispatch"
  /\ Route(c).handler \in {"get", "set", "keys"}
  /\ conn' = [conn EXCEPT ![c].resp = handleSet(Route(c).req, cfg[conn[c].lid]), ![c].pc = "encode"]
  /\ cfg' = [cfg EXCEPT ![conn[c].lid]["base-image-url"] = Arg(Route(c).req, <<"1">>)]
  /\ UNCHANGED <<sockFile, lst, startPc, ctxDone, backlog, stopped, mu, stopCalls, fwdVars, cliVars, wireVars, lockVars, routeVars, ctorVars, supVars, runVars>>

\* the handlers of the mounted ConfigRouter
HandleConfig(c) ==
  /\ conn[c].pc = "dispatch"
  /\ Route(c).handler \in {"get", "set", "keys"}
  /\ Reply(c, CASE Route(c).handler = "get" -> handleGet(Route(c).req, cfg[conn[c].lid])
                [] Route(c).handler = "set" -> handleSet(Route(c).req, cfg[conn[c].lid])
                [] Route(c).handler = "keys" -> handleKeys(Route(c).req, cfg[conn[c].lid]))

\* LocalController.Stop: c.mu.Lock()
StopLock(c) ==
  /\ conn[c].pc = "dispatch"
  /\ Route(c).handler = "stop"
  /\ MuFree(conn[c].lid)
  /\ mu' = [mu EXCEPT ![conn[c].lid] = c]
  /\ conn' = [conn EXCEPT ![c].pc = "stop_check"]
  /\ UNCHANGED <<sockFile, lst, startPc, ctxDone, backlog, stopped, stopCalls, cfg, fwdVars, cliVars, wireVars, lockVars, routeVars, ctorVars, supVars, runVars>>

\* LocalController.Stop: if c.stopped { return nil }
StopCheck(c) ==
  /\ conn[c].pc = "stop_check"
  /\ conn' = [conn EXCEPT ![c].pc = IF stopped[conn[c].lid] THEN "stop_unlock" ELSE "stop_set"]
  /\ UNCHANGED <<sockFile, lst, startPc, ctxDone, backlog, stopped, mu, stopCalls, cfg, fwdVars, cliVars, wireVars, lockVars, routeVars, ctorVars, supVars, runVars>>

\* LocalController.Stop: c.stopped = true, and c.stopFunc() is entered
StopSet(c) ==
  /\ conn[c].pc = "stop_set"
  /\ stopped' = [stopped EXCEPT ![conn[c].lid] = TRUE]
  /\ conn' = [conn EXCEPT ![c].pc = "stop_call"]
  /\ UNCHANGED <<sockFile, lst, startPc, ctxDone, backlog, mu, stopCalls, cfg, fwdVars, cliVars, wireVars, lockVars, routeVars, ctorVars, supVars, runVars>>

\* LocalController.Stop: c.stopFunc() returns
StopCall(c) ==
  /\ conn[c].pc = "stop_call"
  /\ stopCalls' = [stopCalls EXCEPT ![conn[c].lid] = @ + 1]
  /\ conn' = [conn EXCEPT ![c].pc = "stop_unlock", ![c].invoked = TRUE]
  /\ UNCHANGED <<sockFile, lst, startPc, ctxDone, backlog, stopped, mu, cfg, fwdVars, cliVars, wireVars, lockVars, routeVars, ctorVars, supVars, runVars>>

\* a Stop that reports an error once the controller is stopped
StopResultNotIdempotent(wasInvoked) == IF wasInvoked THEN <<>> ELSE <<"already stopped">>

\* the error LocalController.Stop returns, <<>> for nil
StopResult(wasInvoked) == <<>>

\* the stop handler of RegisterController: the reply for Stop's error
StopReply(err) == IF err # <<>> THEN ErrMsg(err) ELSE RespMsg(RespOK)

\* LocalController.Stop: the deferred c.mu.Unlock(), return nil; the handler replies
StopUnlock(c) ==
  /\ conn[c].pc = "stop_unlock"
  /\ mu' = [mu EXCEPT ![conn[c].lid] = 0]
  /\ conn' = [conn EXCEPT ![c].resp = StopReply(StopResult(conn[c].invoked)), ![c].pc = "encode"]
  /\ UNCHANGED <<sockFile, lst, startPc, ctxDone, backlog, stopped, stopCalls, cfg, fwdVars, cliVars, wireVars, lockVars, routeVars, ctorVars, supVars, runVars>>

\* wireFormat.Encode(conn, resp); ioOk: the write to the connection succeeds
Encode(c, ioOk) ==
  /\ conn[c].pc = "encode"
  /\ LET e == LineEncode(conn[c].resp)
     IN conn' = [conn EXCEPT
                   ![c].out = IF ~e.err /\ ioOk THEN @ \o e.data ELSE @,
                   ![c].nwrites = IF ~e.err /\ ioOk THEN @ + 1 ELSE @,
                   ![c].werr = ~e.err /\ ~ioOk,
                   ![c].pc = AfterEncode(c)]
  /\ UNCHANGED <<sockFile, lst, startPc, ctxDone, backlog, stopped, mu, stopCalls, cfg, fwdVars, cliVars, wireVars, lockVars, routeVars, ctorVars, supVars, runVars>>

\* the deferred conn.Close() of handleConnection
CloseConn(c) ==
  /\ conn[c].pc = "close"
  /\ conn' = [conn EXCEPT ![c].open = FALSE, ![c].pc = "exited"]
  /\ UNCHANGED <<sockFile, lst, startPc, ctxDone, backlog, stopped, mu, stopCalls, cfg, fwdVars, cliVars, wireVars, lockVars, routeVars, ctorVars, supVars, runVars>>

\* --------------------------------------------------------- portForwarder
forwarderDialRetries == 30

MaxFwdConns == 1
Fids == 1..MaxFwdConns

\* the two connections whose bytes are followed through the relay
RelayFids == {1, 2}

\* the bytes a peer sends on one connection: at most MaxSent of them
MaxSent == 2

\* the n-th byte that peer `side` ("client" or "guest") of connection k sends
Payload(side, k) == [n \in 1..MaxSent |-> <<side, k, n>>]

\* hpc: the handler of the connection: "idle" (no client yet), "pending" (in
\*   the accept queue), "reset" (dropped unaccepted), "refused" (the listener
\*   was closed when the client connected), "dial" (in dialWithRetry,
\*   i its loop index), "relay" (in proxyBidirectional), "exited"
\* client, guest: the forwarder's ends of the two connections: "none", "open",
\*   "closed"
\* toClient, toGuest: the copy tasks cp(a, b) and cp(b, a): "none", "copy"
\*   (in io.Copy), "exited"
\* done: the messages in the done channel
\* clientEOF, guestEOF: the peer's end of stream has reached the forwarder
\* guestCW: the connection the dialer returned has a CloseWrite method
\* cwClient, cwGuest: CloseWrite has been called on that connection
\* cSent, gSent: the bytes the client and the guest have written so far
\* cBuf, gBuf: the bytes written by the client and by the guest that the
\*   forwarder has not read yet
\* gRcvd, cRcvd: the bytes the forwarder has written to the guest and to the
\*   client
IdleFwd ==
  [hpc |-> "idle", i |-> 0, client |-> "none", guest |-> "none",
   toClient |-> "none", toGuest |-> "none", done |-> 0,
   clientEOF |-> FALSE, guestEOF |-> FALSE,
   guestCW |-> FALSE, cwClient |-> FALSE, cwGuest |-> FALSE,
   cSent |-> <<>>, cBuf |-> <<>>, gRcvd |-> <<>>,
   gSent |-> <<>>, gBuf |-> <<>>, cRcvd |-> <<>>]

FwdInit ==
  /\ fLn = "none"
  /\ fStop = FALSE
  /\ fAccept = "none"
  /\ fClose = "idle"
  /\ fWg = 0
  /\ fBacklog = <<>>
  /\ fc = [k \in Fids \cup RelayFids |-> IdleFwd]

\* portForwarder.Start: net.Listen, then the accept loop is started with wg.Go
FStart ==
  /\ fLn = "none"
  /\ fLn' = "open"
  /\ fAccept' = "running"
  /\ fWg' = fWg + 1
  /\ UNCHANGED <<fStop, fClose, fBacklog, fc, ctlVars, cliVars, wireVars, lockVars, routeVars, ctorVars, supVars, runVars>>

\* a client connects to the listen address
FConnect(k) ==
  /\ fLn = "open"
  /\ fc[k].hpc = "idle"
  /\ \A j \in DOMAIN fc : j < k => fc[j].hpc # "idle"
  /\ fBacklog' = Append(fBacklog, k)
  /\ fc' = [fc EXCEPT ![k].hpc = "pending", ![k].client = "open"]
  /\ UNCHANGED <<fLn, fStop, fAccept, fClose, fWg, ctlVars, cliVars, wireVars, lockVars, routeVars, ctorVars, supVars, runVars>>

\* a client connects after f.ln.Close(): the connection is refused
FConnectRefused(k) ==
  /\ fLn = "closed"
  /\ fc[k].hpc = "idle"
  /\ \A j \in DOMAIN fc : j < k => fc[j].hpc # "idle"
  /\ fc' = [fc EXCEPT ![k].hpc = "refused", ![k].client = "closed"]
  /\ UNCHANGED <<fLn, fStop, fAccept, fClose, fWg, fBacklog, ctlVars, cliVars, wireVars, lockVars, routeVars, ctorVars, supVars, runVars>>

\* the accept loop: Accept returns a connection, its handler is started with wg.Go
FAcceptConn ==
  /\ fAccept = "running"
  /\ fLn = "open"
  /\ fBacklog # <<>>
  /\ fBacklog' = Tail(fBacklog)
  /\ fc' = [fc EXCEPT ![Head(fBacklog)].hpc = "dial", ![Head(fBacklog)].i = 0]
  /\ fWg' = fWg + 1
  /\ UNCHANGED <<fLn, fStop, fAccept, fClose, ctlVars, cliVars, wireVars, lockVars, routeVars, ctorVars, supVars, runVars>>

\* the accept loop: Accept fails on the closed listener, the loop returns
FAcceptExit ==
  /\ fAccept = "running"
  /\ fLn = "closed"
  /\ fAccept' = "exited"
  /\ fWg' = fWg - 1
  /\ UNCHANGED <<fLn, fStop, fClose, fBacklog, fc, ctlVars, cliVars, wireVars, lockVars, routeVars, ctorVars, supVars, runVars>>

\* the handler returns before relaying: the deferred conn.Close runs
HandlerDrop(k) ==
  /\ fc' = [fc EXCEPT ![k].hpc = "exited", ![k].client = "closed"]
  /\ fWg' = fWg - 1
  /\ UNCHANGED <<fLn, fStop, fAccept, fClose, fBacklog, ctlVars, cliVars, wireVars, lockVars, routeVars, ctorVars, supVars, runVars>>

\* a dialWithRetry whose loop runs once more than forwarderDialRetries
FDialAsOneMore(k, ok, cw) ==
  /\ fc[k].hpc = "dial"
  /\ IF fStop
     THEN HandlerDrop(k)
     ELSE IF ok
     THEN /\ fc' = [fc EXCEPT ![k].hpc = "relay", ![k].guest = "open",
                              ![k].toClient = "copy", ![k].toGuest = "copy",
                              ![k].guestCW = cw]
          /\ UNCHANGED <<fLn, fStop, fAccept, fClose, fWg, fBacklog, ctlVars, cliVars, wireVars, lockVars, routeVars, ctorVars, supVars, runVars>>
     ELSE IF fc[k].i < forwarderDialRetries
     THEN /\ fc' = [fc EXCEPT ![k].i = @ + 1]
          /\ UNCHANGED <<fLn, fStop, fAccept, fClose, fWg, fBacklog, ctlVars, cliVars, wireVars, lockVars, routeVars, ctorVars, supVars, runVars>>
     ELSE HandlerDrop(k)

\* a dialWithRetry that does not look at f.stop
FDialAsDeaf(k, ok, cw) ==
  /\ fc[k].hpc = "dial"
  /\ IF ok
     THEN /\ fc' = [fc EXCEPT ![k].hpc = "relay", ![k].guest = "open",
                              ![k].toClient = "copy", ![k].toGuest = "copy",
                              ![k].guestCW = cw]
          /\ UNCHANGED <<fLn, fStop, fAccept, fClose, fWg, fBacklog, ctlVars, cliVars, wireVars, lockVars, routeVars, ctorVars, supVars, runVars>>
     ELSE IF fc[k].i < forwarderDialRetries - 1
     THEN /\ fc' = [fc EXCEPT ![k].i = @ + 1]
          /\ UNCHANGED <<fLn, fStop, fAccept, fClose, fWg, fBacklog, ctlVars, cliVars, wireVars, lockVars, routeVars, ctorVars, supVars, runVars>>
     ELSE HandlerDrop(k)

\* dialWithRetry, iteration i: f.stop is closed and the handler gives up with
\* net.ErrClosed; or the dial succeeds and proxyBidirectional starts the two
\* copy tasks; or the dial fails, and the loop sleeps and goes on, or ends.
\* The dialer returns a net.Conn: its type may or may not have CloseWrite
FDialAs(k, ok, cw) ==
  /\ fc[k].hpc = "dial"
  /\ IF fStop
     THEN HandlerDrop(k)
     ELSE IF ok
     THEN /\ fc' = [fc EXCEPT ![k].hpc = "relay", ![k].guest = "open",
                              ![k].toClient = "copy", ![k].toGuest = "copy",
                              ![k].guestCW = cw]
          /\ UNCHANGED <<fLn, fStop, fAccept, fClose, fWg, fBacklog, ctlVars, cliVars, wireVars, lockVars, routeVars, ctorVars, supVars, runVars>>
     ELSE IF fc[k].i < forwarderDialRetries - 1
     THEN /\ fc' = [fc EXCEPT ![k].i = @ + 1]
          /\ UNCHANGED <<fLn, fStop, fAccept, fClose, fWg, fBacklog, ctlVars, cliVars, wireVars, lockVars, routeVars, ctorVars, supVars, runVars>>
     ELSE HandlerDrop(k)

FDial(k, ok) == \E cw \in BOOLEAN : FDialAs(k, ok, cw)

\* the client closes its sending side while the connection is relayed
ClientEOF(k) ==
  /\ fc[k].hpc = "relay"
  /\ ~fc[k].clientEOF
  /\ fc' = [fc EXCEPT ![k].clientEOF = TRUE]
  /\ UNCHANGED <<fLn, fStop, fAccept, fClose, fWg, fBacklog, ctlVars, cliVars, wireVars, lockVars, routeVars, ctorVars, supVars, runVars>>

\* the guest closes its sending side while the connection is relayed
GuestEOF(k) ==
  /\ fc[k].hpc = "relay"
  /\ ~fc[k].guestEOF
  /\ fc' = [fc EXCEPT ![k].guestEOF = TRUE]
  /\ UNCHANGED <<fLn, fStop, fAccept, fClose, fWg, fBacklog, ctlVars, cliVars, wireVars, lockVars, routeVars, ctorVars, supVars, runVars>>

\* the client writes its next byte to an open connection
ClientSend(k) ==
  /\ fc[k].hpc \in {"dial", "relay"}
  /\ ~fc[k].clientEOF
  /\ Len(fc[k].cSent) < MaxSent
  /\ LET b == Payload("client", k)[Len(fc[k].cSent) + 1]
     IN fc' = [fc EXCEPT ![k].cSent = Append(@, b), ![k].cBuf = Append(@, b)]
  /\ UNCHANGED <<fLn, fStop, fAccept, fClose, fWg, fBacklog, ctlVars, cliVars, wireVars, lockVars, routeVars, ctorVars, supVars, runVars>>

\* the guest writes its next byte to the dialled connection
GuestSend(k) ==
  /\ fc[k].hpc = "relay"
  /\ ~fc[k].guestEOF
  /\ Len(fc[k].gSent) < MaxSent
  /\ LET b == Payload("guest", k)[Len(fc[k].gSent) + 1]
     IN fc' = [fc EXCEPT ![k].gSent = Append(@, b), ![k].gBuf = Append(@, b)]
  /\ UNCHANGED <<fLn, fStop, fAccept, fClose, fWg, fBacklog, ctlVars, cliVars, wireVars, lockVars, routeVars, ctorVars, supVars, runVars>>

\* io.Copy wrote a chunk twice
WriteTwice(written, chunk) == written \o chunk \o chunk

\* io.Copy: dst.Write of the chunk read from src
Write(written, chunk) == written \o chunk

\* cp(b, a), client to guest: one round of io.Copy, which reads what the
\* client has written and writes it to the guest connection
CopyToGuest(k) ==
  /\ fc[k].toGuest = "copy"
  /\ fc[k].cBuf # <<>>
  /\ fc[k].guest = "open" /\ fc[k].client = "open"
  /\ \E n \in 1..Len(fc[k].cBuf) :
       fc' = [fc EXCEPT ![k].gRcvd = Write(@, SubSeq(fc[k].cBuf, 1, n)),
                        ![k].cBuf = SubSeq(@, n + 1, Len(@))]
  /\ UNCHANGED <<fLn, fStop, fAccept, fClose, fWg, fBacklog, ctlVars, cliVars, wireVars, lockVars, routeVars, ctorVars, supVars, runVars>>

\* cp(a, b), guest to client: one round of io.Copy
CopyToClient(k) ==
  /\ fc[k].toClient = "copy"
  /\ fc[k].gBuf # <<>>
  /\ fc[k].guest = "open" /\ fc[k].client = "open"
  /\ \E n \in 1..Len(fc[k].gBuf) :
       fc' = [fc EXCEPT ![k].cRcvd = Write(@, SubSeq(fc[k].gBuf, 1, n)),
                        ![k].gBuf = SubSeq(@, n + 1, Len(@))]
  /\ UNCHANGED <<fLn, fStop, fAccept, fClose, fWg, fBacklog, ctlVars, cliVars, wireVars, lockVars, routeVars, ctorVars, supVars, runVars>>

\* io.Copy returns: its source is at end of stream, or one of the two
\* connections has been closed under it
CopyOver(k, srcEOF) == srcEOF \/ fc[k].client = "closed" \/ fc[k].guest = "closed"

\* a cp that never calls CloseWrite
HalfClosesNever(has, dst) == FALSE

\* dst.(interface{ CloseWrite() error }) holds and CloseWrite takes effect:
\* the destination has the method and is still open
HalfCloses(has, dst) == has /\ dst = "open"

\* cp(b, a), client to guest: io.Copy returns, CloseWrite on the guest
\* connection if its type has the method, done <- struct{}{}
ToGuestEnd(k) ==
  /\ fc[k].toGuest = "copy"
  /\ CopyOver(k, fc[k].clientEOF /\ fc[k].cBuf = <<>>)
  /\ fc' = [fc EXCEPT ![k].toGuest = "exited", ![k].done = @ + 1,
                      ![k].cwGuest = HalfCloses(fc[k].guestCW, fc[k].guest)]
  /\ UNCHANGED <<fLn, fStop, fAccept, fClose, fWg, fBacklog, ctlVars, cliVars, wireVars, lockVars, routeVars, ctorVars, supVars, runVars>>

\* cp(a, b), guest to client: io.Copy returns, CloseWrite on the client
\* connection (a *net.TCPConn from the TCP listener, which has the method),
\* done <- struct{}{}
ToClientEnd(k) ==
  /\ fc[k].toClient = "copy"
  /\ CopyOver(k, fc[k].guestEOF /\ fc[k].gBuf = <<>>)
  /\ fc' = [fc EXCEPT ![k].toClient = "exited", ![k].done = @ + 1,
                      ![k].cwClient = HalfCloses(TRUE, fc[k].client)]
  /\ UNCHANGED <<fLn, fStop, fAccept, fClose, fWg, fBacklog, ctlVars, cliVars, wireVars, lockVars, routeVars, ctorVars, supVars, runVars>>

\* a handler that returns without closing the guest connection
ProxyReturnLeaky(k) ==
  /\ fc[k].hpc = "relay"
  /\ fc[k].done >= 1
  /\ fc' = [fc EXCEPT ![k].hpc = "exited", ![k].done = @ - 1, ![k].client = "closed"]
  /\ fWg' = fWg - 1
  /\ UNCHANGED <<fLn, fStop, fAccept, fClose, fBacklog, ctlVars, cliVars, wireVars, lockVars, routeVars, ctorVars, supVars, runVars>>

\* a handler whose deferred closes hit the connections of every handler
ProxyReturnAll(k) ==
  /\ fc[k].hpc = "relay"
  /\ fc[k].done >= 1
  /\ fc' = [j \in DOMAIN fc |->
              IF j = k
              THEN [fc[j] EXCEPT !.hpc = "exited", !.done = @ - 1,
                                 !.guest = "closed", !.client = "closed"]
              ELSE IF fc[j].hpc = "relay"
              THEN [fc[j] EXCEPT !.guest = "closed", !.client = "closed"]
              ELSE fc[j]]
  /\ fWg' = fWg - 1
  /\ UNCHANGED <<fLn, fStop, fAccept, fClose, fBacklog, ctlVars, cliVars, wireVars, lockVars, routeVars, ctorVars, supVars, runVars>>

\* proxyBidirectional returns after one <-done; the handler's deferred
\* guestConn.Close and conn.Close run and the handler returns
ProxyReturn(k) ==
  /\ fc[k].hpc = "relay"
  /\ fc[k].done >= 1
  /\ fc' = [fc EXCEPT ![k].hpc = "exited", ![k].done = @ - 1,
                      ![k].guest = "closed", ![k].client = "closed"]
  /\ fWg' = fWg - 1
  /\ UNCHANGED <<fLn, fStop, fAccept, fClose, fBacklog, ctlVars, cliVars, wireVars, lockVars, routeVars, ctorVars, supVars, runVars>>

\* portForwarder.Close: close(f.stop)
FCloseSignal ==
  /\ fLn # "none"
  /\ fClose = "idle"
  /\ fStop' = TRUE
  /\ fClose' = "signalled"
  /\ UNCHANGED <<fLn, fAccept, fWg, fBacklog, fc, ctlVars, cliVars, wireVars, lockVars, routeVars, ctorVars, supVars, runVars>>

\* portForwarder.Close: f.ln.Close(); the clients not yet accepted are dropped
FCloseListener ==
  /\ fClose = "signalled"
  /\ fLn' = "closed"
  /\ fClose' = "waiting"
  /\ fBacklog' = <<>>
  /\ fc' = [k \in DOMAIN fc |->
              IF fc[k].hpc = "pending"
              THEN [fc[k] EXCEPT !.hpc = "reset", !.client = "closed"]
              ELSE fc[k]]
  /\ UNCHANGED <<fStop, fAccept, fWg, ctlVars, cliVars, wireVars, lockVars, routeVars, ctorVars, supVars, runVars>>

\* a Close that does not wait for the tasks
FCloseReturnNoWait ==
  /\ fClose = "waiting"
  /\ fClose' = "returned"
  /\ UNCHANGED <<fLn, fStop, fAccept, fWg, fBacklog, fc, ctlVars, cliVars, wireVars, lockVars, routeVars, ctorVars, supVars, runVars>>

\* portForwarder.Close: f.wg.Wait() returns, Close returns
FCloseReturn ==
  /\ fClose = "waiting"
  /\ fWg = 0
  /\ fClose' = "returned"
  /\ UNCHANGED <<fLn, fStop, fAccept, fWg, fBacklog, fc, ctlVars, cliVars, wireVars, lockVars, routeVars, ctorVars, supVars, runVars>>

\* ---------------------------------------------------------------- Client
\* a Go error: nil, or its text and whether os.IsNotExist holds of it
NoErr == [nil |-> TRUE, notExist |-> FALSE, text |-> <<>>]
ErrText(t) == [nil |-> FALSE, notExist |-> FALSE, text |-> t]

\* fmt.Errorf(prefix + ": %w", err): os.IsNotExist does not look through it
Errorf(prefix, err) == ErrText(prefix \o <<SP>> \o err.text)

Contains(s, a) == \E i \in 1..Len(s) : s[i] = a

\* the texts isSocketNotAvailable looks for
TextNoSuchFile == "no such file"
TextConnRefused == "connection refused"

\* an isSocketNotAvailable that trusts os.IsNotExist alone
isSocketNotAvailableStrict(err) == ~err.nil /\ err.notExist

isSocketNotAvailable(err) ==
  /\ ~err.nil
  /\ \/ err.notExist
     \/ Contains(err.text, TextNoSuchFile)
     \/ Contains(err.text, TextConnRefused)

\* what Transport.Dial returns when the socket file is absent, when nothing
\* listens on it, when it may not be opened, when the dial times out
DialNoFile == ErrText(<<"dial", SP, "unix", SP, "control.sock:", SP, "connect:", SP, TextNoSuchFile, SP, "or", SP, "directory">>)
DialRefused == ErrText(<<"dial", SP, "unix", SP, "control.sock:", SP, "connect:", SP, TextConnRefused>>)
DialDenied == ErrText(<<"dial", SP, "unix", SP, "control.sock:", SP, "connect:", SP, "permission denied">>)
DialTimeout == ErrText(<<"dial", SP, "unix", SP, "control.sock:", SP, "i/o timeout">>)
DialNotExist == [nil |-> FALSE, notExist |-> TRUE, text |-> <<"file", SP, "does", SP, "not", SP, "exist">>]

\* the transport is unavailable: socket file absent or connection refused
Unavailable == {DialNoFile, DialRefused, DialNotExist}
DialErrors == Unavailable \cup {DialDenied, DialTimeout}

\* what a Write or a Read on the connection can fail with
WriteErrors == {ErrText(<<"write", SP, "unix", SP, "control.sock:", SP, "broken pipe">>)}
ReadErrors ==
  {ErrText(<<"EOF">>),
   ErrText(<<"use", SP, "of", SP, "closed", SP, "network", SP, "connection">>),
   ErrText(<<"read", SP, "unix", SP, "control.sock:", SP, "i/o timeout">>),
   ErrText(<<"read", SP, "unix", SP, "control.sock:", SP, "connection reset by peer">>),
   ErrText(<<"read", SP, "unix", SP, "control.sock:", SP, TextConnRefused>>)}

\* the reply lines a listener can send
ServerReplies ==
  {r \o <<NL>> : r \in {RespPong, RespOK, StatusRunning, StatusStopped,
                        ErrorPrefix \o <<"unknown", SP, "command:", SP, "bogus">>,
                        <<"v", "1", SP>> \o RespOK}}

\* pc: "idle", "dial", "encode", "decode", "result", "returned"
\* op: the command of the method called; cause: why sendCommand failed, as the
\*   transport knows it: "none", "unavailable", "other"
\* resp, err: what sendCommand returns; val, ret: what the method returns
IdleClient ==
  [pc |-> "idle", op |-> <<>>, cause |-> "none", resp |-> Message(0, <<>>, <<>>, <<>>),
   err |-> NoErr, val |-> <<>>, ret |-> NoErr]

CliInit == cl = IdleClient

\* PingContext, StopContext or StatusContext is called
ClientCall(op) ==
  /\ cl.pc = "idle"
  /\ cl' = [cl EXCEPT !.pc = "dial", !.op = op]
  /\ UNCHANGED <<ctlVars, fwdVars, wireVars, lockVars, routeVars, ctorVars, supVars, runVars>>

\* sendCommand: c.transport.Dial
ClientDial(e) ==
  /\ cl.pc = "dial"
  /\ cl' = IF e.nil
           THEN [cl EXCEPT !.pc = "encode"]
           ELSE [cl EXCEPT !.pc = "result", !.err = e,
                           !.cause = IF e \in Unavailable THEN "unavailable" ELSE "other"]
  /\ UNCHANGED <<ctlVars, fwdVars, wireVars, lockVars, routeVars, ctorVars, supVars, runVars>>

\* sendCommand: c.wireFormat.Encode(conn, &Message{Command: cmd})
ClientEncode(e) ==
  /\ cl.pc = "encode"
  /\ cl' = IF LineEncode(Message(0, cl.op, <<>>, <<>>)).err
           THEN [cl EXCEPT !.pc = "result", !.cause = "other",
                           !.err = Errorf(<<"send", SP, "command:">>, ErrText(<<"empty", SP, "message">>))]
           ELSE IF e.nil
           THEN [cl EXCEPT !.pc = "decode"]
           ELSE [cl EXCEPT !.pc = "result", !.cause = "other",
                           !.err = Errorf(<<"send", SP, "command:">>, e)]
  /\ UNCHANGED <<ctlVars, fwdVars, wireVars, lockVars, routeVars, ctorVars, supVars, runVars>>

\* sendCommand: c.wireFormat.Decode(conn), the read failing with e or
\* returning the line
ClientDecode(e, line) ==
  /\ cl.pc = "decode"
  /\ cl' = IF ~e.nil
           THEN [cl EXCEPT !.pc = "result", !.cause = "other",
                           !.err = Errorf(<<"read", SP, "response:">>, e)]
           ELSE [cl EXCEPT !.pc = "result", !.resp = LineDecode(line).msg]
  /\ UNCHANGED <<ctlVars, fwdVars, wireVars, lockVars, routeVars, ctorVars, supVars, runVars>>

\* PingContext after sendCommand: [val, ret]
PingContext(resp, err) ==
  IF ~err.nil THEN [val |-> <<>>, ret |-> err]
  ELSE IF resp.Error # <<>>
       THEN [val |-> <<>>, ret |-> ErrText(<<"ping", SP, "failed:", SP>> \o resp.Error)]
       ELSE [val |-> <<>>, ret |-> NoErr]

ErrNotRunning == ErrText(<<"VM", SP, "is", SP, "not", SP, "running">>)

\* StopContext after sendCommand
StopContext(resp, err) ==
  IF ~err.nil
  THEN IF isSocketNotAvailable(err)
       THEN [val |-> <<>>, ret |-> ErrNotRunning]
       ELSE [val |-> <<>>, ret |-> Errorf(<<"send", SP, "stop:">>, err)]
  ELSE IF resp.Error # <<>>
       THEN [val |-> <<>>, ret |-> ErrText(<<"server", SP, "error:", SP>> \o resp.Error)]
       ELSE IF resp.Response # RespOK
            THEN [val |-> <<>>, ret |-> ErrText(<<"unexpected", SP, "response:", SP>> \o resp.Response)]
            ELSE [val |-> <<>>, ret |-> NoErr]

\* StatusContext after sendCommand
StatusContext(resp, err) ==
  IF ~err.nil
  THEN IF isSocketNotAvailable(err)
       THEN [val |-> StatusStopped, ret |-> NoErr]
       ELSE [val |-> <<>>, ret |-> Errorf(<<"get", SP, "status:">>, err)]
  ELSE IF resp.Error # <<>>
       THEN [val |-> <<>>, ret |-> ErrText(<<"server", SP, "error:", SP>> \o resp.Error)]
       ELSE [val |-> resp.Response, ret |-> NoErr]

\* the method returns
ClientReturn ==
  /\ cl.pc = "result"
  /\ LET r == IF cl.op = CmdPing THEN PingContext(cl.resp, cl.err)
              ELSE IF cl.op = CmdStop THEN StopContext(cl.resp, cl.err)
              ELSE StatusContext(cl.resp, cl.err)
     IN cl' = [cl EXCEPT !.pc = "returned", !.val = r.val, !.ret = r.ret]
  /\ UNCHANGED <<ctlVars, fwdVars, wireVars, lockVars, routeVars, ctorVars, supVars, runVars>>

\* IsRunning
IsRunning == cl.ret.nil

\* ------------------------------------------------------------ LineFormat
\* the largest Version of a Message handed to Encode
MaxVersion == 10

\* the payload texts: plain ones, the empty one, some with white space at an
\* end or a line break inside, and some that look like lines of the protocol
Payloads ==
  {<<>>, <<"test">>, RespOK, <<"something", SP, "failed">>,
   <<SP, "ok">>, <<"ok", SP>>, <<"a", NL, "b">>,
   ErrorPrefix \o <<"boom">>, <<"v", "2", SP, "status">>, <<"v", "2">>,
   <<"v", SP, "x">>}

\* pc: "idle", "encoded", "decoded"
IdleWire == [pc |-> "idle", msg |-> NoMsg, err |-> FALSE, buf |-> <<>>, out |-> NoMsg, outErr |-> FALSE]

WireInit == wire = IdleWire

\* format.Encode(&buf, msg) on an empty buffer
WireEncode(msg) ==
  /\ wire.pc = "idle"
  /\ LET e == LineEncode(msg)
     IN wire' = [wire EXCEPT !.pc = "encoded", !.msg = msg, !.err = e.err,
                             !.buf = wire.buf \o e.data]
  /\ UNCHANGED <<ctlVars, fwdVars, cliVars, lockVars, routeVars, ctorVars, supVars, runVars>>

\* format.Decode(&buf) of what Encode wrote
WireDecode ==
  /\ wire.pc = "encoded"
  /\ ~wire.err
  /\ LET d == LineDecode(wire.buf)
     IN wire' = [wire EXCEPT !.pc = "decoded", !.out = d.msg, !.outErr = d.err]
  /\ UNCHANGED <<ctlVars, fwdVars, cliVars, lockVars, routeVars, ctorVars, supVars, runVars>>

vars == <<ctlVars, fwdVars, cliVars, wireVars, lockVars, routeVars, ctorVars, supVars, runVars>>

Init == CtlInit /\ FwdInit /\ CliInit /\ WireInit /\ LockInit /\ RouteInit /\ CtorInit /\ SupInit /\ RunInit

\* the steps of the supervisor that owns Listener l and of its accept loop
ListenerSteps(l) ==
  \/ \E c0 \in ConfigInits : NewListener(l, c0)
  \/ StartListener(l)
  \/ AcceptConn(l)
  \/ CloseListener(l)

\* the steps that depend on the context passed to Start
ContextSteps(l) ==
  \/ CancelCtx(l)
  \/ StartReturn(l)
  \/ AcceptRetry(l)

\* the steps of a client and of handleConnection around the handler
ConnSteps(c, inputs) ==
  \/ Dial(c)
  \/ \E in \in inputs : Decode(c, in)
  \/ \E ioOk \in BOOLEAN : Encode(c, ioOk)
  \/ CloseConn(c)

\* the handlers RegisterController registers over the LocalController
ControllerSteps(c) ==
  \/ HandlePing(c)
  \/ HandleStatus(c)
  \/ StopLock(c)
  \/ StopCheck(c)
  \/ StopSet(c)
  \/ StopCall(c)
  \/ StopUnlock(c)

\* the handlers of the mounted ConfigRouter, and the reply for no handler
ConfigSteps(c) ==
  \/ HandleConfig(c)
  \/ DispatchUnknown(c)

\* Clients of one Listener that send ping, status and stop
ControllerInputs == {ln \o <<NL>> : ln \in {LinePing, LineStatus, LineStop}}

Next ==
  \/ ListenerSteps(1)
  \/ \E c \in Cids : ConnSteps(c, ControllerInputs)
  \/ \E c \in Cids : ControllerSteps(c)

Spec == Init /\ [][Next]_vars

\* One Listener serving every kind of request
MaxProtoConns == 1
ProtoCids == 1..MaxProtoConns

ProtoNext ==
  \/ ListenerSteps(1)
  \/ \E c \in ProtoCids : ConnSteps(c, ClientInputs)
  \/ \E c \in ProtoCids : ControllerSteps(c)
  \/ \E c \in ProtoCids : ConfigSteps(c)

ProtoSpec == Init /\ [][ProtoNext]_vars

\* Successive supervisors on one state directory, their contexts and accept loops
MaxLifeConns == 1
LifeCids == 1..MaxLifeConns

LifeNext ==
  \/ \E l \in Lids : ListenerSteps(l)
  \/ \E l \in Lids : ContextSteps(l)
  \/ \E c \in LifeCids : ConnSteps(c, {LinePing \o <<NL>>})
  \/ \E c \in LifeCids : HandlePing(c)

LifeSpec == Init /\ [][LifeNext]_vars

\* the accept loop of Start, one goroutine
AcceptLoop(l) == AcceptConn(l) \/ StartReturn(l)

\* handleConnection on a connection that sends ping, one goroutine
PingHandler(c) ==
  \/ Decode(c, LinePing \o <<NL>>)
  \/ HandlePing(c)
  \/ \E ioOk \in BOOLEAN : Encode(c, ioOk)
  \/ CloseConn(c)

\* the goroutines of a supervisor run whenever they can: the accept loop and
\* every handleConnection; clients, Close and the context are not scheduled
LifeFairSpec ==
  /\ LifeSpec
  /\ \A l \in Lids : WF_vars(AcceptLoop(l))
  /\ \A c \in LifeCids : WF_vars(PingHandler(c))

\* ---------------------------------------------------------------- claims
\* LocalController.Stop has returned to the handler of connection c
StopReturned(c) == Route(c).handler = "stop" /\ conn[c].pc \in {"encode", "close", "exited"}

\* C1: however many Stop calls are made on a LocalController, in whatever
\* interleaving, the stop callback is invoked exactly once: by one Stop call,
\* and every Stop call that has returned found it invoked.
C1_StopCallbackOnce ==
  \A l \in Lids :
    /\ stopCalls[l] <= 1
    /\ Cardinality({c \in Cids : conn[c].lid = l /\ conn[c].invoked}) = stopCalls[l]
    /\ (\E c \in Cids : conn[c].lid = l /\ StopReturned(c)) => stopCalls[l] = 1

C1_Witness ==
  \E c, d \in Cids :
    /\ c # d /\ conn[c].lid = conn[d].lid
    /\ StopReturned(c) /\ StopReturned(d)
    /\ conn[c].invoked /\ ~conn[d].invoked
    /\ stopCalls[conn[c].lid] = 1

\* C2: every `stop` a Listener serves is answered `ok`, whichever client was
\* first, the callback has then fired exactly once, and a client whose reply
\* was written reads `ok`.
C2_StopServedOk ==
  \A c \in Cids :
    StopReturned(c) =>
      /\ conn[c].resp = RespMsg(RespOK)
      /\ stopCalls[conn[c].lid] = 1
      /\ (conn[c].pc \in {"close", "exited"} /\ ~conn[c].werr) => conn[c].out = RespOK \o <<NL>>

C2_Witness ==
  \E c, d \in Cids :
    /\ c # d /\ conn[c].lid = conn[d].lid
    /\ StopReturned(c) /\ StopReturned(d)
    /\ conn[c].pc = "exited" /\ conn[d].pc = "exited"
    /\ conn[c].out = RespOK \o <<NL>> /\ conn[d].out = RespOK \o <<NL>>

\* C5: a connection whose request was decoded has exactly one reply written to
\* it by the time it is closed (the write itself not failing).
C5_OneReplyPerRequest ==
  \A c \in Cids :
    (conn[c].pc = "exited" /\ conn[c].nread >= 1 /\ ~conn[c].werr) => conn[c].nwrites = 1

\* C6: on every connection the handler decodes at most one request, writes at
\* most one reply, and has closed the connection when it is done, on the decode
\* error path too; a pipelined second request is never read.
C6_OneRequestOneReply ==
  \A c \in Cids :
    /\ conn[c].nread <= 1
    /\ conn[c].nwrites <= 1
    /\ conn[c].nwrites <= conn[c].nread
    /\ conn[c].pc = "exited" => ~conn[c].open

C6_Witness ==
  \E c \in Cids :
    /\ conn[c].pc = "exited"
    /\ conn[c].inbuf = LinePing \o <<NL>> \o LineStop \o <<NL>>
    /\ conn[c].nread = 1 /\ conn[c].nwrites = 1
    /\ conn[c].out = RespPong \o <<NL>>
    /\ ~conn[c].open

\* C7: once Close has closed the listening socket, a running Start returns,
\* whether or not its context is cancelled.
C7_CloseEndsStart ==
  \A l \in Lids : (lst[l] = "closed" /\ startPc[l] = "loop") ~> (startPc[l] = "returned")

C9_CancelAndCloseEndStart ==
  \A l \in Lids :
    (ctxDone[l] /\ lst[l] = "closed" /\ startPc[l] = "loop") ~> (startPc[l] = "returned")

C9_Witness ==
  \E l \in Lids : ctxDone[l] /\ lst[l] = "closed" /\ startPc[l] = "returned"

\* C10: NewListener on a socket that answers fails and changes neither the
\* socket file nor any other Listener; on a path where nothing answers it
\* succeeds, and the file at the path is then the one its Listen created.
C10_NewListenerProbe ==
  [][\A l \in Lids :
       (lst[l] = "unbuilt" /\ lst'[l] # "unbuilt") =>
         IF \E k \in Lids : sockFile = FileOf(k) /\ lst[k] = "open"
         THEN /\ lst'[l] = "failed"
              /\ sockFile' = sockFile
              /\ \A k \in Lids \ {l} : lst'[k] = lst[k] /\ startPc'[k] = startPc[k]
         ELSE /\ lst'[l] = "open"
              /\ sockFile' = FileOf(l)]_vars

C10_Witness ==
  \E l, k \in Lids :
    /\ lst[l] = "failed" /\ lst[k] = "open" /\ sockFile = FileOf(k)
    /\ startPc[k] = "loop"

\* ------------------------------------------------- portForwarder specs
\* the handler of a forwarded connection, one goroutine
FwdHandler(k) == (\E ok \in BOOLEAN : FDial(k, ok)) \/ ProxyReturn(k)

FwdNext ==
  \/ FStart
  \/ FAcceptConn
  \/ FAcceptExit
  \/ FCloseSignal
  \/ FCloseListener
  \/ FCloseReturn
  \/ \E k \in Fids : FConnect(k)
  \/ \E k \in Fids : FConnectRefused(k)
  \/ \E k \in Fids, ok \in BOOLEAN : FDial(k, ok)
  \/ \E k \in Fids : ProxyReturn(k)
  \/ \E k \in Fids : ToGuestEnd(k)
  \/ \E k \in Fids : ToClientEnd(k)
  \/ \E k \in Fids : ClientEOF(k)
  \/ \E k \in Fids : GuestEOF(k)

\* the forwarder on its own: no control socket on disk
FwdStart == Init /\ sockFile = NoFile

FwdSpec == FwdStart /\ [][FwdNext]_vars

\* every goroutine of the forwarder and the caller of Close run whenever they
\* can; whether a dial succeeds and when the peers close is up to them
FwdFairSpec ==
  /\ FwdSpec
  /\ WF_vars(FAcceptConn \/ FAcceptExit)
  /\ WF_vars(FCloseListener \/ FCloseReturn)
  /\ \A k \in Fids :
       /\ WF_vars(FwdHandler(k))
       /\ WF_vars(ToGuestEnd(k))
       /\ WF_vars(ToClientEnd(k))

\* C3: once Close has returned no task of the forwarder is running: not the
\* accept loop, no connection handler, no copy task.
C3_CloseDrainsAllTasks ==
  fClose = "returned" =>
    /\ fAccept = "exited"
    /\ \A k \in Fids :
         /\ fc[k].hpc \in {"idle", "reset", "refused", "exited"}
         /\ fc[k].toGuest \in {"none", "exited"}
         /\ fc[k].toClient \in {"none", "exited"}

\* C4: a Close that has been called returns, whatever the connections are
\* doing and without the peers closing their ends.
C4_CloseReturns == (fClose # "idle") ~> (fClose = "returned")

\* ---------------------------------------------------------- Client specs
ClientNext ==
  \/ \E op \in {CmdPing, CmdStop, CmdStatus} : ClientCall(op)
  \/ \E e \in DialErrors \cup {NoErr} : ClientDial(e)
  \/ \E e \in WriteErrors \cup {NoErr} : ClientEncode(e)
  \/ \E e \in ReadErrors : ClientDecode(e, <<>>)
  \/ \E line \in ServerReplies : ClientDecode(NoErr, line)
  \/ ClientReturn

\* a Client on its own: no control socket, no forwarder
ClientStart == Init /\ sockFile = NoFile

ClientSpec == ClientStart /\ [][ClientNext]_vars

\* C11: a Client method that has returned after the transport was unavailable
\* reports not running (Ping fails, Status is `stopped` without error, Stop is
\* the error "VM is not running"); after any other transport failure Status
\* and Stop return an error and Status does not report `stopped`.
C11_ClientFailureKinds ==
  cl.pc = "returned" =>
    /\ cl.cause = "unavailable" =>
         /\ cl.op = CmdPing => ~IsRunning
         /\ cl.op = CmdStatus => cl.val = StatusStopped /\ cl.ret.nil
         /\ cl.op = CmdStop => cl.ret = ErrNotRunning
    /\ cl.cause = "other" =>
         /\ cl.op = CmdPing => ~IsRunning
         /\ cl.op \in {CmdStatus, CmdStop} => ~cl.ret.nil /\ cl.val # StatusStopped

\* a connection whose request is a protocol error: the line could not be
\* decoded, no handler was found, or the handler answered with an error
ProtocolError(c) ==
  \/ Decoded[conn[c].inbuf].err
  \/ Route(c).handler = ""
  \/ conn[c].resp.Error # <<>>

\* C12: a connection that sent something that is a protocol error has, when
\* the handler is done with it, been sent a reply line `error: ...` (the write
\* itself not failing).
C12_ProtocolErrorsReplied ==
  \A c \in Cids :
    (conn[c].pc = "exited" /\ conn[c].inbuf # <<>> /\ ~conn[c].werr /\ ProtocolError(c))
      => HasPrefix(conn[c].out, ErrorPrefix)

\* ------------------------------------------------- isolation of requests
\* what the clients of one Listener send: valid ping and status requests, and
\* nothing, a line without newline, an empty line, an unknown command
GoodInputs == {ln \o <<NL>> : ln \in {LinePing, LineStatus}}
BadInputs == {<<>>, LinePing, <<NL>>, LineBogus \o <<NL>>}

IsolationNext ==
  \/ ListenerSteps(1)
  \/ \E c \in Cids : ConnSteps(c, GoodInputs \cup BadInputs)
  \/ \E c \in Cids : HandlePing(c)
  \/ \E c \in Cids : HandleStatus(c)
  \/ \E c \in Cids : DispatchUnknown(c)
  \/ ContextSteps(1)

IsolationSpec == Init /\ [][IsolationNext]_vars

OriginalCommand(c) == NewRequest(LineDecode(conn[c].inbuf).msg.Command).Command

\* C14: when Dispatch finds no handler for the request of a connection, at the
\* top level, under an unmounted prefix or inside the mounted config router,
\* its error Message names the command as it was received.
C14_UnknownNamesOriginal ==
  \A c \in Cids :
    (conn[c].pc \in {"encode", "close", "exited"} /\ conn[c].nread >= 1 /\ Route(c).handler = "")
      => conn[c].resp = ErrMsg(<<"unknown command:", SP>> \o OriginalCommand(c))

\* ------------------------------------------------------- config claims
\* connection c was served by the handler h of the config router
Served(c, h) == Route(c).handler = h /\ conn[c].pc \in {"encode", "close", "exited"}

\* the first and second positional argument of the request of connection c
ArgKey(c) == Arg(Route(c).req, <<"0">>)
ArgValue(c) == Arg(Route(c).req, <<"1">>)

C16_SetOnlyWritable ==
  \A c \in Cids :
    (Served(c, "set") /\ Len(ArgKey(c)) = 1 /\ ArgKey(c)[1] \in RegistryKeys)
      => /\ ArgKey(c)[1] \in Writable <=> conn[c].resp = RespMsg(RespOK)
         /\ ArgKey(c)[1] \notin Writable => Contains(conn[c].resp.Error, "read-only")

\* clients that read the keys that need a running VM while the supervisor
\* fills them in, and one that asks for a key that does not exist
VMInputs == {LineGet(k) \o <<NL>> : k \in RequiresVM} \cup {LineConfigBogus \o <<NL>>}

ConfigNext ==
  \/ NewListener(1, DefaultConfig)
  \/ StartListener(1)
  \/ AcceptConn(1)
  \/ \E c \in Cids : ConnSteps(c, VMInputs)
  \/ \E c \in Cids : ConfigSteps(c)
  \/ \E k \in Deferred : SupervisorAssign(1, k)

\* a supervisor on a fresh state directory
ConfigStart == Init /\ sockFile = NoFile

ConfigSpec == ConfigStart /\ [][ConfigNext]_vars

\* C17: a `get` of a key that needs a running VM is answered with an error
\* containing "not available" when the live value of the key is empty at that
\* moment, and with the live value otherwise, whenever it was assigned.
C17_LateBinding ==
  [][\A c \in Cids :
       (conn[c].pc = "dispatch" /\ conn'[c].pc = "encode" /\ Route(c).handler = "get"
          /\ Len(ArgKey(c)) = 1 /\ ArgKey(c)[1] \in RequiresVM)
         => LET v == cfg[conn[c].lid][ArgKey(c)[1]]
            IN IF v = <<>>
               THEN Contains(conn'[c].resp.Error, "not available")
               ELSE conn'[c].resp = RespMsg(v)]_vars

C17_Witness ==
  \E c, d \in Cids :
    /\ c # d /\ conn[c].lid = conn[d].lid
    /\ conn[c].pc = "exited" /\ conn[d].pc = "exited"
    /\ conn[c].inbuf = LineGet("ssh-config-path") \o <<NL>>
    /\ conn[d].inbuf = conn[c].inbuf
    /\ Contains(conn[c].out, "not available")
    /\ conn[d].out = LateValue("ssh-config-path") \o <<NL>>

\* C18: the getter table and the registry hold the same keys, and the reply
\* to `keys` lists every registered key exactly once, in sorted order, joined
\* by single spaces.
C18_KeysMatchRegistry ==
  /\ ConfigKeySet = RegistryKeys
  /\ \A c \in Cids :
       Served(c, "keys") =>
         LET ws == Fields(conn[c].resp.Response)
         IN /\ Len(ws) = Cardinality(RegistryKeys)
            /\ {ws[i] : i \in 1..Len(ws)} = {<<k>> : k \in RegistryKeys}
            /\ \A i \in 1..(Len(ws) - 1) : KeyLess(ws[i][1], ws[i + 1][1])
            /\ conn[c].resp.Response = Join([i \in 1..Len(ws) |-> ws[i][1]])
            /\ conn[c].resp.Error = <<>>

C18_Witness ==
  \E c \in Cids :
    /\ conn[c].pc = "exited" /\ conn[c].inbuf = LineKeys \o <<NL>>
    /\ Len(Fields(conn[c].out)) = Len(ConfigKeyRegistry)
    /\ Fields(conn[c].out)[1] = <<"arch">>
    /\ Fields(conn[c].out)[Len(ConfigKeyRegistry)] = <<"vm-dir">>

\* ------------------------------------------------ LocalController.Status
\* the step in which the status handler on connection c gets its result
StatusStep(c) ==
  conn[c].pc = "dispatch" /\ Route(c).handler = "status" /\ conn'[c].pc = "encode"

\* C19: a Status call made before any Stop call has begun returns `running`,
\* one made after a Stop call has returned returns `stopped`, and after a
\* Status call has returned `stopped` the controller stays stopped, so that
\* every later Status call returns `stopped` too.
C19_StatusFollowsStop ==
  [][\A c \in Cids :
       LET l == conn[c].lid
           others == {d \in Cids \ {c} : conn[d].lid = l}
       IN /\ (Served(c, "status") /\ conn[c].resp = RespMsg(StatusStopped))
               => stopped[l] /\ stopped'[l]
          /\ StatusStep(c) =>
               /\ (\E d \in others : StopReturned(d)) => conn'[c].resp = RespMsg(StatusStopped)
               /\ (\A d \in others : Route(d).handler = "stop" => conn[d].pc = "dispatch")
                    => conn'[c].resp = RespMsg(StatusRunning)
               /\ (\E d \in others : Served(d, "status") /\ conn[d].resp = RespMsg(StatusStopped))
                    => conn'[c].resp = RespMsg(StatusStopped)
               /\ stopped[l] => conn'[c].resp = RespMsg(StatusStopped)]_vars

C19_Witness ==
  \E c, d \in Cids :
    /\ c # d /\ conn[c].lid = conn[d].lid
    /\ StopReturned(c) /\ conn[c].invoked
    /\ conn[d].pc = "exited" /\ conn[d].inbuf = LineStatus \o <<NL>>
    /\ conn[d].out = StatusStopped \o <<NL>>

\* ------------------------------------------------- half-close propagation
\* the step in which the copy task cp(b, a) of connection k ends on the
\* client's end of stream
ToGuestEOFStep(k) ==
  /\ fc[k].toGuest = "copy" /\ fc'[k].toGuest = "exited"
  /\ fc[k].clientEOF /\ fc[k].guest = "open"

\* the step in which the copy task cp(a, b) of connection k ends on the
\* guest's end of stream
ToClientEOFStep(k) ==
  /\ fc[k].toClient = "copy" /\ fc'[k].toClient = "exited"
  /\ fc[k].guestEOF /\ fc[k].client = "open"

\* the guest has been told that no more bytes come: by a half-close or by
\* the close of its connection
GuestSeesEOF(k) == fc[k].cwGuest \/ fc[k].guest = "closed"

\* one relayed connection of the forwarder, from Start to Close, and the
\* clients that come after the listening socket was closed
RelayNext ==
  \/ FStart
  \/ FConnect(1)
  \/ \E k \in RelayFids : FConnectRefused(k)
  \/ FAcceptConn
  \/ FAcceptExit
  \/ \E ok \in BOOLEAN : FDial(1, ok)
  \/ ClientEOF(1)
  \/ GuestEOF(1)
  \/ ToGuestEnd(1)
  \/ ToClientEnd(1)
  \/ ProxyReturn(1)
  \/ FCloseSignal
  \/ FCloseListener
  \/ FCloseReturn

RelaySpec == FwdStart /\ [][RelayNext]_vars

\* every task of the connection that can take a step does so in the end
RelayFairSpec ==
  /\ RelaySpec
  /\ WF_vars(FAcceptConn \/ FAcceptExit)
  /\ WF_vars(FwdHandler(1))
  /\ WF_vars(ToGuestEnd(1))
  /\ WF_vars(ToClientEnd(1))

\* the copy task towards the guest half-closes it on the client's EOF
C20_GuestHalfClosed ==
  [][\A k \in Fids : ToGuestEOFStep(k) => fc'[k].cwGuest]_vars

\* the copy task towards the guest half-closes it on the client's EOF exactly
\* when the guest connection's type has CloseWrite
C20_GuestHalfClosedIfAble ==
  [][\A k \in Fids : ToGuestEOFStep(k) => (fc'[k].cwGuest <=> fc[k].guestCW)]_vars

\* the copy task towards the client half-closes it on the guest's EOF
C20_ClientHalfClosed ==
  [][\A k \in Fids : ToClientEOFStep(k) => fc'[k].cwClient]_vars

\* the guest-side connection of a relayed connection whose client closed its
\* write half observes end of stream and is closed
C20_GuestEventuallyClosed ==
  \A k \in Fids :
    (fc[k].hpc = "relay" /\ fc[k].clientEOF)
      ~> (GuestSeesEOF(k) /\ fc[k].guest = "closed")

\* C20: the copy task whose source reaches end of stream half-closes its
\* destination (CloseWrite), in both directions; and once the client has
\* closed its write half of a relayed connection, the guest-side connection
\* observes end of stream and is closed.
C20_HalfClosePropagates ==
  C20_GuestHalfClosed /\ C20_ClientHalfClosed /\ C20_GuestEventuallyClosed

\* C20, amended: the copy task whose source reaches end of stream half-closes
\* its destination when the destination's connection type has CloseWrite
\* (the accepted TCP connection always has, the dialer's connection may not);
\* and once the client has closed its write half of a relayed connection,
\* the guest-side connection observes end of stream, by the half-close or
\* else by its close, and is closed.
C20_HalfClosePropagatesIfAble ==
  C20_GuestHalfClosedIfAble /\ C20_ClientHalfClosed /\ C20_GuestEventuallyClosed

C20_Witness ==
  \E k \in Fids :
    /\ fc[k].hpc = "exited"
    /\ fc[k].clientEOF /\ fc[k].toGuest = "exited"
    /\ fc[k].guestCW /\ fc[k].cwGuest
    /\ fc[k].guest = "closed"

\* ------------------------------------------------------- relayed bytes
\* two connections relayed side by side, each peer sending its payload; the
\* guest is dialled at once and its connection has CloseWrite
DataNext ==
  \/ FStart
  \/ FAcceptConn
  \/ \E k \in RelayFids :
       \/ FConnect(k)
       \/ FDialAs(k, TRUE, TRUE)
       \/ ClientSend(k)
       \/ GuestSend(k)
       \/ CopyToGuest(k)
       \/ CopyToClient(k)
       \/ ClientEOF(k)
       \/ GuestEOF(k)
       \/ ToGuestEnd(k)
       \/ ToClientEnd(k)
       \/ ProxyReturn(k)

DataSpec == FwdStart /\ [][DataNext]_vars

Range(s) == {s[i] : i \in 1..Len(s)}

\* C21: in each direction of each relayed connection the bytes written to
\* the destination are at every moment a prefix of the bytes the source has
\* sent (nothing altered, reordered, duplicated or injected), and no byte of
\* one connection is written to a peer of another connection.
C21_BytesRelayedUnmodified ==
  \A k \in RelayFids :
    /\ HasPrefix(fc[k].cSent, fc[k].gRcvd)
    /\ HasPrefix(fc[k].gSent, fc[k].cRcvd)
    /\ \A j \in RelayFids \ {k} :
         (Range(fc[k].gRcvd) \cup Range(fc[k].cRcvd))
           \cap (Range(fc[j].cSent) \cup Range(fc[j].gSent)) = {}

C21_Witness ==
  \A k \in RelayFids :
    /\ fc[k].hpc = "relay"
    /\ fc[k].gRcvd = Payload("client", k)
    /\ fc[k].cRcvd = Payload("guest", k)

\* ------------------------------------------------ no accept after Close
\* the forwarder has accepted the connection (Accept returned it)
Accepted(r) == r.hpc \in {"dial", "relay", "exited"}

\* C22: once Close has returned the accept loop has ended and the listening
\* socket is closed, so that no step accepts a further connection, starts a
\* dial attempt or starts a relay: the set of accepted connections never
\* grows again.
C22_NoAcceptAfterClose ==
  [][fClose = "returned" =>
       /\ fAccept = "exited" /\ fLn = "closed" /\ fLn' = "closed"
       /\ \A k \in DOMAIN fc :
            /\ Accepted(fc'[k]) => Accepted(fc[k])
            /\ fc'[k].hpc \notin {"pending", "dial", "relay"}
            /\ fc'[k].i = fc[k].i]_vars

C22_Witness ==
  /\ fClose = "returned"
  /\ \E j, k \in RelayFids : fc[j].hpc = "exited" /\ fc[k].hpc = "refused"

\* ------------------------------------------------- after Listener.Close
\* Transport.Dial of the socket path by a Client: it connects to the Listener
\* that listens on the file, is refused on a file nobody listens on, and
\* finds no file otherwise
TransportDial ==
  IF ProbeAnswers THEN NoErr
  ELSE IF sockFile = NoFile THEN DialNoFile
  ELSE DialRefused

\* Listeners built and closed on one state directory, and a Client of that
\* directory that asks whether the VM runs
ShutdownNext ==
  \/ \E l \in Lids : NewListener(l, DefaultConfig)
  \/ \E l \in Lids : CloseListener(l)
  \/ \E op \in {CmdPing, CmdStatus} : ClientCall(op)
  \/ ClientDial(TransportDial)
  \/ ClientEncode(NoErr)
  \/ \E line \in ServerReplies : ClientDecode(NoErr, line)
  \/ ClientReturn

ShutdownSpec == Init /\ [][ShutdownNext]_vars

\* no Listener is listening on the state directory
NoneListening == \A l \in Lids : lst[l] # "open"

\* C23: after Listener.Close has returned the socket file of that Listener
\* is gone; a Client that dials then finds the transport unavailable, so
\* that IsRunning is false and Status returns `stopped` without an error;
\* and a Listener constructed then on the same state directory is built.
C23_CloseRemovesSocket ==
  [][/\ \A l \in Lids : lst[l] = "closed" =>
          /\ sockFile # FileOf(l)
          /\ NoneListening => sockFile = NoFile
     /\ (NoneListening /\ sockFile = NoFile /\ cl.pc = "dial" /\ cl'.pc # "dial")
          => cl'.pc = "result" /\ cl'.err = DialNoFile
     /\ (cl.pc = "result" /\ cl.err = DialNoFile /\ cl'.pc = "returned") =>
          /\ cl.op = CmdPing => ~cl'.ret.nil
          /\ cl.op = CmdStatus => cl'.val = StatusStopped /\ cl'.ret.nil
     /\ \A l \in Lids :
          (NoneListening /\ lst[l] = "unbuilt" /\ lst'[l] # "unbuilt")
            => lst'[l] = "open" /\ sockFile' = FileOf(l)]_vars

C23_Witness ==
  \E l, m \in Lids :
    /\ lst[l] = "closed" /\ lst[m] = "open" /\ sockFile = FileOf(m)
    /\ cl.pc = "returned" /\ cl.op = CmdStatus /\ cl.err = DialNoFile
    /\ cl.val = StatusStopped /\ cl.ret.nil

\* ------------------------------------------------- LineFormat round trip
\* the Messages with at most one of Command, Response, Error set
OneField ==
  {Message(v, t, <<>>, <<>>) : v \in 0..MaxVersion, t \in Payloads}
    \cup {Message(v, <<>>, t, <<>>) : v \in 0..MaxVersion, t \in Payloads}
    \cup {Message(v, <<>>, <<>>, t) : v \in 0..MaxVersion, t \in Payloads}

WireNext ==
  \/ \E msg \in OneField : WireEncode(msg)
  \/ WireDecode

\* a LineFormat on its own: no control socket on disk
WireStart == Init /\ sockFile = NoFile

WireSpec == WireStart /\ [][WireNext]_vars

\* C24: a Message with exactly one of Command, Response, Error set, encoded
\* by LineFormat and decoded again, gives back the version and the text: an
\* Error in Error, a Command or a Response as the decoded text.
C24_LineRoundTrip ==
  wire.pc = "decoded" =>
    /\ ~wire.outErr
    /\ wire.out.Version = wire.msg.Version
    /\ wire.msg.Error # <<>> =>
         wire.out.Error = wire.msg.Error
    /\ wire.msg.Command # <<>> =>
         wire.out.Command = wire.msg.Command /\ wire.out.Error = <<>>
    /\ wire.msg.Response # <<>> =>
         wire.out.Response = wire.msg.Response /\ wire.out.Error = <<>>


\* the Message has no payload field set
EmptyMessage(msg) == msg.Command = <<>> /\ msg.Response = <<>> /\ msg.Error = <<>>

\* C25: Encode of a Message whose Command, Response and Error are all empty
\* returns an error and writes nothing to the writer, whatever its Version.
C25_EmptyMessageRejected ==
  (wire.pc = "encoded" /\ EmptyMessage(wire.msg)) => wire.err /\ wire.buf = <<>>

C25_Witness ==
  /\ wire.pc = "encoded" /\ EmptyMessage(wire.msg) /\ wire.msg.Version > 0
  /\ wire.err


\* ------------------------------------------------ RELAYING to CLOSED
\* the step in which the handler of connection k leaves proxyBidirectional
\* and closes the client and the guest connection
RelayCloses(k) == fc[k].hpc = "relay" /\ fc'[k].hpc = "exited"

\* C26: a relayed connection is closed only after both copy tasks have
\* finished, so that after one direction has ended the bytes of the other
\* direction are still relayed until that direction ends too: at the close
\* no byte that a peer sent is left unrelayed.
C26_ClosedAfterBothCopies ==
  [][\A k \in RelayFids :
       RelayCloses(k) =>
         /\ fc[k].toGuest = "exited" /\ fc[k].toClient = "exited"
         /\ fc[k].cBuf = <<>> /\ fc[k].gBuf = <<>>]_vars


\* ------------------------------------------------------- dial retries
\* two client connections from the accept to the end of dialWithRetry, and
\* a Close of the forwarder
DialNext ==
  \/ FStart
  \/ FAcceptConn
  \/ FAcceptExit
  \/ FCloseSignal
  \/ FCloseListener
  \/ \E k \in RelayFids : FConnect(k)
  \/ \E k \in RelayFids, ok \in BOOLEAN : FDialAs(k, ok, TRUE)

DialSpec == FwdStart /\ [][DialNext]_vars

\* a step of the dial loop of connection k
DialStep(k) == fc[k].hpc = "dial" /\ fc'[k] # fc[k]

\* the handler of connection k has returned without relaying: the client
\* connection is closed, no guest connection and no copy task exist
Dropped(r) ==
  /\ r.hpc = "exited" /\ r.client = "closed"
  /\ r.guest = "none" /\ r.toGuest = "none" /\ r.toClient = "none"

\* C27: each accepted connection makes at most forwarderDialRetries dial
\* attempts, whatever the other connections do: the first success starts the
\* relay, the failure of the last attempt closes the client connection
\* without a relay, nothing is dialled for the connection afterwards, and
\* every accepted connection starts at attempt 0.
C27_DialBudgetPerConnection ==
  [][\A k \in RelayFids :
       /\ (DialStep(k) /\ ~fStop) =>
            /\ fc[k].i < forwarderDialRetries
            /\ \/ fc'[k].hpc = "relay" /\ fc'[k].guest = "open"
               \/ /\ fc'[k].hpc = "dial" /\ fc'[k].i = fc[k].i + 1
                  /\ fc'[k].i < forwarderDialRetries
               \/ Dropped(fc'[k]) /\ fc[k].i = forwarderDialRetries - 1
            /\ \A j \in RelayFids \ {k} : fc'[j] = fc[j]
       /\ fc[k].hpc \in {"relay", "exited"} =>
            fc'[k].hpc # "dial" /\ fc'[k].i = fc[k].i
       /\ (fc[k].hpc # "dial" /\ fc'[k].hpc = "dial") => fc'[k].i = 0]_vars

C27_Witness ==
  /\ ~fStop
  /\ \E j, k \in RelayFids :
       /\ Dropped(fc[j]) /\ fc[j].i = forwarderDialRetries - 1
       /\ fc[k].hpc = "relay" /\ fc[k].i = 1

\* C28: a dial loop that comes to its check of f.stop after Close has closed
\* it dials no more: the handler returns at once, the client connection is
\* closed and no relay is started, however many attempts are left.
C28_DialAbortsOnClose ==
  [][\A k \in RelayFids :
       (DialStep(k) /\ fStop) => Dropped(fc'[k]) /\ fc'[k].i = fc[k].i]_vars

C28_Witness ==
  /\ fStop
  /\ \E k \in RelayFids : Dropped(fc[k]) /\ fc[k].i = 1


\* ------------------------------------------------- one connection fails
\* C29: the end of a relayed connection (EOF or an error of a read or a
\* write, which end io.Copy alike) closes the client and the guest side of
\* that connection and nothing else: no step of a relayed connection changes
\* another connection, the listening socket or the accept loop, and a closed
\* connection is not dialled or relayed again.
C29_FailureStaysLocal ==
  [][\A k \in RelayFids :
       /\ (fc[k].hpc = "relay" /\ fc'[k] # fc[k]) =>
            /\ \A j \in RelayFids \ {k} : fc'[j] = fc[j]
            /\ fAccept' = fAccept /\ fLn' = fLn /\ fBacklog' = fBacklog
            /\ fStop' = fStop
       /\ RelayCloses(k) => fc'[k].client = "closed" /\ fc'[k].guest = "closed"
       /\ fc[k].hpc = "exited" =>
            /\ fc'[k].hpc = "exited"
            /\ fc'[k].client = "closed" /\ fc'[k].guest = fc[k].guest
            /\ fc'[k].i = fc[k].i]_vars

C29_Witness ==
  /\ fAccept = "running" /\ fLn = "open"
  /\ \E j, k \in RelayFids :
       /\ fc[j].hpc = "exited" /\ fc[j].guest = "closed" /\ fc[j].clientEOF
       /\ fc[k].hpc = "relay" /\ fc[k].client = "open" /\ fc[k].guest = "open"
       /\ fc[k].gRcvd = Payload("client", k)


\* ------------------------------------------------ C30: the config lock
\* clients that read the fields the supervisor assigns under the lock, and
\* one that sends a get without a key
LockInputs ==
  {LineGet(k) \o <<NL>> : k \in LockedKeys} \cup {LineGetNoKey \o <<NL>>}

LockNext ==
  \/ NewListener(1, DefaultConfig)
  \/ StartListener(1)
  \/ AcceptConn(1)
  \/ \E c \in Cids : ConnSteps(c, LockInputs)
  \/ \E c \in Cids : GetRLock(c)
  \/ \E c \in Cids : GetRead(c)
  \/ \E c \in Cids : GetRefused(c)
  \/ SupervisorLock(1)
  \/ \E k \in LockedKeys : SupervisorWrite(1, k)
  \/ SupervisorUnlock(1)

LockStart == Init /\ sockFile = NoFile

LockSpec == LockStart /\ [][LockNext]_vars

\* connection c is inside handleGet, between RLock and RUnlock
Reading(c) == conn[c].pc = "get_read"

\* C30: reads of live values by `get` and writes made under ConfigRouter.Lock
\* exclude each other: a writer and a reader never hold the lock together, the
\* configuration changes only while the writer holds it and no get is reading,
\* a get reads only while no writer holds it, and its reply is made of the
\* value the field had when the get took the lock, so a get that starts after
\* the writer released the lock answers with the value written.
C30_GetAndWriteExclusive ==
  [][/\ \A l \in Lids : ~(cfgMu[l].w /\ cfgMu[l].r > 0)
     /\ \A l \in Lids :
          cfg'[l] # cfg[l] /\ lst[l] = "open"
            => cfgMu[l].w /\ \A c \in Cids : ~(Reading(c) /\ conn[c].lid = l)
     /\ \A c \in Cids :
          Reading(c) /\ ~Reading(c)'
            => /\ ~cfgMu[conn[c].lid].w
               /\ LET k == ArgKey(c)[1]
                      v == cfg[conn[c].lid][k]
                  IN IF v = <<>>
                     THEN Contains(conn'[c].resp.Error, "not available")
                     ELSE conn'[c].resp = RespMsg(v)]_vars

\* one get read the field before the supervisor wrote it and was told it is
\* not available; another started after the supervisor released the lock and
\* got the written path
C30_Witness ==
  \E c, d \in Cids :
    /\ c # d /\ conn[c].lid = 1 /\ conn[d].lid = 1
    /\ conn[c].pc = "exited" /\ conn[d].pc = "exited"
    /\ conn[c].inbuf = LineGet("ssh-config-path") \o <<NL>>
    /\ conn[d].inbuf = conn[c].inbuf
    /\ Contains(conn[c].out, "not available")
    /\ conn[d].resp = RespMsg(LateValue("ssh-config-path"))
    /\ ~cfgMu[1].w /\ cfgMu[1].r = 0


\* -------------------------------------------------------- C31: routing
\* routers a program can build with NewRouter, HandleFunc and Mount; each maps
\* a router to its handlers (by command) and its mounted routers (by prefix)
RouterSetups ==
  [supervisor |-> Routers,
   \* TestRouter/namespaced commands
   namespaced |->
     [top |-> [handlers |-> NoEntries, prefix |-> (<<"config">> :> "config")],
      config |-> [handlers |-> (<<"get">> :> "get"), prefix |-> NoEntries]],
   \* TestRouter/list commands
   listed |->
     [top |-> [handlers |-> (<<"ping">> :> "ping"), prefix |-> (<<"config">> :> "config")],
      config |-> [handlers |-> (<<"get">> :> "get" @@ <<"set">> :> "set"),
                  prefix |-> NoEntries]],
   \* a mount inside a mount
   nested |->
     [top |-> [handlers |-> NoEntries, prefix |-> (<<"a">> :> "A")],
      A |-> [handlers |-> (<<"x">> :> "A.x"), prefix |-> (<<"b">> :> "B")],
      B |-> [handlers |-> (<<"c">> :> "B.c"), prefix |-> NoEntries]],
   \* a handler registered under a dotted name next to a mount of its prefix
   dotted |->
     [top |-> [handlers |-> (<<"config", DOT, "get">> :> "flat"),
               prefix |-> (<<"config">> :> "config")],
      config |-> [handlers |-> (<<"get">> :> "get" @@ <<"keys">> :> "keys"),
                  prefix |-> NoEntries]],
   \* Mount("", sub)
   emptyPrefix |->
     [top |-> [handlers |-> (<<"ping">> :> "ping"), prefix |-> (<<>> :> "sub")],
      sub |-> [handlers |-> (<<"get">> :> "get"), prefix |-> NoEntries]],
   \* Mount("a.b", sub)
   dottedPrefix |->
     [top |-> [handlers |-> (<<"ping">> :> "ping"), prefix |-> (<<"a", DOT, "b">> :> "sub")],
      sub |-> [handlers |-> (<<"c">> :> "c"), prefix |-> NoEntries]]]

SetupNames == DOMAIN RouterSetups

\* request lines dispatched on the top router
RouteLines ==
  {<<>>, <<"ping">>, <<"get">>, <<"config">>, <<"config", DOT>>, <<DOT, "get">>,
   <<"config", DOT, "get">>, <<"config", DOT, "get", SP, "key", EQ, "name">>,
   <<"config", DOT, "get", SP, "hostname">>, <<"config", DOT, "keys">>,
   <<"config", DOT, "get", DOT, "x">>, <<"config", DOT, "bogus">>,
   <<"a">>, <<"a", DOT, "x">>, <<"a", DOT, "b">>, <<"a", DOT, "b", DOT, "c">>,
   <<"a", DOT, "b", DOT, "c", SP, "k", EQ, "v", SP, "7">>, <<"a", DOT, "c">>,
   <<"b", DOT, "c">>, <<"bogus", DOT, "get">>}

\* router.Dispatch(ctx, NewRequest(line)) on the top router of setup s
RouteDispatch(s, line) ==
  /\ rt' = [IdleRoute EXCEPT !.op = "dispatch", !.setup = s, !.raw = line,
                             !.res = DispatchIn(RouterSetups[s], "top", NewRequest(line))]
  /\ UNCHANGED <<ctlVars, fwdVars, cliVars, wireVars, lockVars, ctorVars, supVars, runVars>>


\* the orders a range over a Go map with keys S can take
Perms(S) ==
  {f \in [1..Cardinality(S) -> S] : \A i, j \in 1..Cardinality(S) : f[i] = f[j] => i = j}

\* a Commands whose names of a mounted router lose the prefix
CommandsListsBare(rs, r) == Perms(DOMAIN rs[r].handlers)

\* Router.Commands on router r of rs: the lists it can return, the handlers'
\* names in map order, then for each prefix in map order prefix+"."+cmd for
\* the names of the mounted router
RECURSIVE CommandsLists(_, _), MountedLists(_, _, _)
CommandsLists(rs, r) ==
  {hs \o ms : hs \in Perms(DOMAIN rs[r].handlers),
              ms \in UNION {MountedLists(rs, r, ps) : ps \in Perms(DOMAIN rs[r].prefix)}}

\* the inner loop of Commands over the prefixes in the order ps
MountedLists(rs, r, ps) ==
  IF ps = <<>> THEN {<<>>}
  ELSE {[i \in 1..Len(l) |-> ps[1] \o <<DOT>> \o l[i]] \o rest :
          l \in CommandsLists(rs, rs[r].prefix[ps[1]]),
          rest \in MountedLists(rs, r, Tail(ps))}

\* router.Commands() on the top router of setup s
RouteCommands(s) ==
  /\ \E l \in CommandsLists(RouterSetups[s], "top") :
       rt' = [IdleRoute EXCEPT !.op = "commands", !.setup = s, !.cmds = l]
  /\ UNCHANGED <<ctlVars, fwdVars, cliVars, wireVars, lockVars, ctorVars, supVars, runVars>>

\* whitespace-free tokens a client sends as key or value
Tokens ==
  {<<"name">>, <<"base-image-url">>, <<"7">>, <<"a", EQ, "b">>, <<EQ, "x">>, <<"x", EQ>>,
   <<"https://mirror/img?arch", EQ, "arm64">>}

\* the words of `config.set <key> <value>` and of `config.get <key>`
ConfigWords ==
  {<<<<"config", DOT, "set">>, k, v>> : k, v \in Tokens}
    \cup {<<<<"config", DOT, "get">>, k>> : k \in Tokens}

\* the line made of the words ws, one space between them
RECURSIVE LineOf(_)
LineOf(ws) ==
  IF ws = <<>> THEN <<>>
  ELSE IF Len(ws) = 1 THEN ws[1] ELSE ws[1] \o <<SP>> \o LineOf(Tail(ws))

\* NewRequest(line) for the line made of the words ws
RouteParse(ws) ==
  /\ rt' = [IdleRoute EXCEPT !.op = "parse", !.words = ws, !.raw = LineOf(ws),
                             !.res = [NoResult EXCEPT !.req = NewRequest(LineOf(ws))]]
  /\ UNCHANGED <<ctlVars, fwdVars, cliVars, wireVars, lockVars, ctorVars, supVars, runVars>>

RouterNext ==
  \/ \E s \in SetupNames, line \in RouteLines : RouteDispatch(s, line)
  \/ \E s \in SetupNames : RouteCommands(s)
  \/ \E ws \in ConfigWords : RouteParse(ws)

RouterSpec == Init /\ [][RouterNext]_vars

\* the routing the claim describes, on router r of rs for the command cmd: an
\* exact match in the flat table first; otherwise, when the first '.' is at
\* index min or later and a router is mounted at the text before it, the
\* routing of the remainder on that router; [handler, cmd], handler "" when
\* nothing is found
RECURSIVE Resolve(_, _, _, _)
Resolve(rs, r, cmd, min) ==
  IF cmd \in DOMAIN rs[r].handlers THEN [handler |-> rs[r].handlers[cmd], cmd |-> cmd]
  ELSE IF \E i \in (min + 1)..Len(cmd) :
            /\ cmd[i] = DOT /\ \A j \in 1..(i - 1) : cmd[j] # DOT
            /\ SubSeq(cmd, 1, i - 1) \in DOMAIN rs[r].prefix
       THEN LET i == CHOOSE i \in 1..Len(cmd) : cmd[i] = DOT /\ \A j \in 1..(i - 1) : cmd[j] # DOT
            IN Resolve(rs, rs[r].prefix[SubSeq(cmd, 1, i - 1)], SubSeq(cmd, i + 1, Len(cmd)), min)
       ELSE [handler |-> "", cmd |-> cmd]

\* Dispatch did what Resolve says, with the Args and Raw of the request
RoutedAs(min) ==
  rt.op = "dispatch" =>
    LET req == NewRequest(rt.raw)
        want == Resolve(RouterSetups[rt.setup], "top", req.Command, min)
    IN /\ rt.res.handler = want.handler
       /\ rt.res.req = [Command |-> want.cmd, Args |-> req.Args, Raw |-> req.Raw]
       /\ want.handler = "" => rt.res.msg = ErrMsg(<<"unknown command:", SP>> \o want.cmd)

\* the cases the claim names
RoutedCases ==
  /\ (rt.op = "dispatch" /\ rt.setup = "namespaced"
        /\ rt.raw = <<"config", DOT, "get", SP, "key", EQ, "name">>)
       => /\ rt.res.handler = "get"
          /\ rt.res.req.Command = <<"get">>
          /\ rt.res.req.Args = (<<"key">> :> <<"name">>)
  /\ (rt.op = "dispatch" /\ rt.setup = "nested" /\ rt.raw = <<"a", DOT, "b", DOT, "c">>)
       => rt.res.handler = "B.c" /\ rt.res.req.Command = <<"c">>
  /\ (rt.op = "dispatch" /\ rt.setup = "dotted" /\ rt.raw = <<"config", DOT, "get">>)
       => rt.res.handler = "flat" /\ rt.res.req.Command = rt.raw

\* C31 (as stated): Dispatch matches the whole command in the flat table
\* first; otherwise, if the command contains '.', it splits at the first '.'
\* and, if a router is mounted at the prefix, dispatches the remainder there
\* with the original Args and Raw.
C31_DispatchSplitsAtSeparator == RoutedAs(0) /\ RoutedCases

\* C31 (amended): the same, where the split is made only when the first '.'
\* is not the first character of the command, so a router mounted at the
\* empty prefix is never reached.
C31_DispatchSplitsAfterPrefix == RoutedAs(1) /\ RoutedCases

\* `config.get key=name` reached the mounted router's get handler
C31_Witness ==
  /\ rt.op = "dispatch" /\ rt.setup = "namespaced"
  /\ rt.raw = <<"config", DOT, "get", SP, "key", EQ, "name">>
  /\ rt.res.handler = "get"


\* ------------------------------------------------------- C32: Commands
\* the command names tried on a setup: those of the request lines and those
\* Commands returned
Candidates == {NewRequest(l).Command : l \in RouteLines} \cup {rt.cmds[i] : i \in 1..Len(rt.cmds)}

\* Dispatch on the top router of the setup under test finds a handler for name
Dispatches(name) ==
  DispatchIn(RouterSetups[rt.setup], "top", NewRequest(name)).handler # ""

EveryReturnedDispatches == \A i \in 1..Len(rt.cmds) : Dispatches(rt.cmds[i])

EveryDispatchableReturned ==
  \A n \in Candidates : Dispatches(n) => \E i \in 1..Len(rt.cmds) : rt.cmds[i] = n

NoneReturnedTwice == \A i, j \in 1..Len(rt.cmds) : rt.cmds[i] = rt.cmds[j] => i = j

\* no handler name of the setup contains '.', and no prefix contains '.' or
\* is empty
PlainNames(rs) ==
  \A r \in DOMAIN rs :
    /\ \A h \in DOMAIN rs[r].handlers : IndexOf(h, DOT) < 0
    /\ \A q \in DOMAIN rs[r].prefix : q # <<>> /\ IndexOf(q, DOT) < 0

\* C32 (as stated): Commands() returns exactly the names Dispatch routes to a
\* handler: every returned name dispatches, every dispatchable name is
\* returned, and no name is returned twice.
C32_CommandsExact ==
  rt.op = "commands" =>
    EveryReturnedDispatches /\ EveryDispatchableReturned /\ NoneReturnedTwice

\* C32 (amended): Commands() returns every name Dispatch routes to a handler;
\* when no handler name contains '.' and no mounted prefix contains '.' or is
\* empty, it returns only such names and none of them twice.
C32_CommandsCoverDispatch ==
  rt.op = "commands" =>
    /\ EveryDispatchableReturned
    /\ PlainNames(RouterSetups[rt.setup]) => EveryReturnedDispatches /\ NoneReturnedTwice

\* TestRouter/list commands: three names, one flat and two under the mount
C32_Witness ==
  /\ rt.op = "commands" /\ rt.setup = "listed"
  /\ Len(rt.cmds) = 3
  /\ rt.cmds[1] = <<"ping">>
  /\ {rt.cmds[2], rt.cmds[3]} = {<<"config", DOT, "get">>, <<"config", DOT, "set">>}


\* ------------------------------------- C33: concurrent constructions
\* NewListenerWithConfig, call by call
\* conn, err := cfg.Transport.Dial(address, SocketCheckTimeout)
CtorProbe(l) ==
  /\ lst[l] = "unbuilt" /\ ctor[l] = "idle"
  /\ IF ProbeAnswers
     THEN /\ lst' = [lst EXCEPT ![l] = "failed"]
          /\ ctor' = [ctor EXCEPT ![l] = "done"]
     ELSE /\ ctor' = [ctor EXCEPT ![l] = "probed"]
          /\ UNCHANGED lst
  /\ UNCHANGED <<sockFile, startPc, ctxDone, backlog, conn, stopped, mu, stopCalls, cfg, fwdVars, cliVars, wireVars, lockVars, routeVars, supVars, runVars>>

\* cfg.Transport.Cleanup(address): removeIfExists
CtorCleanup(l) ==
  /\ ctor[l] = "probed"
  /\ sockFile' = NoFile
  /\ ctor' = [ctor EXCEPT ![l] = "cleaned"]
  /\ UNCHANGED <<lst, startPc, ctxDone, backlog, conn, stopped, mu, stopCalls, cfg, fwdVars, cliVars, wireVars, lockVars, routeVars, supVars, runVars>>

\* cfg.Transport.Listen(address): bind creates the socket file and fails when
\* a file is at the path
CtorListen(l) ==
  /\ ctor[l] = "cleaned"
  /\ ctor' = [ctor EXCEPT ![l] = "done"]
  /\ IF sockFile = NoFile
     THEN /\ sockFile' = FileOf(l)
          /\ lst' = [lst EXCEPT ![l] = "open"]
     ELSE /\ lst' = [lst EXCEPT ![l] = "failed"]
          /\ UNCHANGED sockFile
  /\ UNCHANGED <<startPc, ctxDone, backlog, conn, stopped, mu, stopCalls, cfg, fwdVars, cliVars, wireVars, lockVars, routeVars, supVars, runVars>>

CtorStep(l) == CtorProbe(l) \/ CtorCleanup(l) \/ CtorListen(l)

BindNext ==
  \/ \E l \in Lids : CtorProbe(l)
  \/ \E l \in Lids : CtorCleanup(l)
  \/ \E l \in Lids : CtorListen(l)
  \/ \E l \in Lids : StartListener(l)
  \/ \E l \in Lids : CancelCtx(l)
  \/ \E l \in Lids : CloseListener(l)

BindSpec == Init /\ [][BindNext]_vars

\* the Listeners that are listening
Listening == {l \in Lids : lst[l] = "open"}

\* C33: at most one live Listener is bound to the socket path of a state
\* directory at any time: two concurrent constructions cannot both succeed,
\* and no step of a construction removes the socket file of a Listener that
\* is listening.
C33_OneListenerPerSocket ==
  [][/\ Cardinality(Listening') <= 1
     /\ \A l, k \in Lids :
          (sockFile = FileOf(l) /\ lst[l] = "open" /\ ctor'[k] # ctor[k])
            => sockFile' = sockFile]_vars


\* ---------------------------------- C34: the supervisor's assignments
\* what runStart and Runner.WaitForIncus do to the captured Config and to the
\* ConfigRouter lock after `go ctrlServer.Start(ctx)`, in program order: the
\* flags, SetSSHKeys under the lock, SSHConfigPath under the lock, and the
\* SSHConfigPath of makeReport, which WaitForIncus calls
RunStart ==
  <<[op |-> "assign", key |-> "cpus", val |-> <<"2">>],
    [op |-> "assign", key |-> "memory-gib", val |-> <<"4">>],
    [op |-> "assign", key |-> "disk-size-gib", val |-> <<"3", "2">>],
    [op |-> "assign", key |-> "gui", val |-> <<"false">>],
    [op |-> "assign", key |-> "base-image-url", val |-> <<"https://mirror/custom">>],
    [op |-> "assign", key |-> "base-image-path", val |-> LateValue("base-image-path")],
    [op |-> "lock", key |-> "", val |-> <<>>],
    [op |-> "assign", key |-> "ssh-private-key-path", val |-> LateValue("ssh-private-key-path")],
    [op |-> "unlock", key |-> "", val |-> <<>>],
    [op |-> "lock", key |-> "", val |-> <<>>],
    [op |-> "assign", key |-> "ssh-config-path", val |-> LateValue("ssh-config-path")],
    [op |-> "unlock", key |-> "", val |-> <<>>],
    [op |-> "assign", key |-> "ssh-config-path", val |-> LateValue("ssh-config-path")]>>

\* the step the supervisor of l makes next
NextOp(l) == IF sup[l] < Len(RunStart) THEN RunStart[sup[l] + 1] ELSE [op |-> "end", key |-> "", val |-> <<>>]

\* cfgHandler.Lock()
RunStartLock(l) ==
  /\ startPc[l] # "notstarted" /\ lst[l] = "open"
  /\ NextOp(l).op = "lock"
  /\ LockFree(l)
  /\ cfgMu' = [cfgMu EXCEPT ![l].w = TRUE]
  /\ sup' = [sup EXCEPT ![l] = @ + 1]
  /\ UNCHANGED <<ctlVars, fwdVars, cliVars, wireVars, routeVars, ctorVars, runVars>>

\* an assignment to a field of the Config the ConfigRouter captured
RunStartAssign(l) ==
  /\ startPc[l] # "notstarted" /\ lst[l] = "open"
  /\ NextOp(l).op = "assign"
  /\ cfg' = [cfg EXCEPT ![l][NextOp(l).key] = NextOp(l).val]
  /\ sup' = [sup EXCEPT ![l] = @ + 1]
  /\ UNCHANGED <<sockFile, lst, startPc, ctxDone, backlog, conn, stopped, mu, stopCalls, fwdVars, cliVars, wireVars, lockVars, routeVars, ctorVars, runVars>>

\* cfgHandler.Unlock()
RunStartUnlock(l) ==
  /\ NextOp(l).op = "unlock"
  /\ cfgMu' = [cfgMu EXCEPT ![l].w = FALSE]
  /\ sup' = [sup EXCEPT ![l] = @ + 1]
  /\ UNCHANGED <<ctlVars, fwdVars, cliVars, wireVars, routeVars, ctorVars, runVars>>

\* clients that read a flag and a path while the supervisor goes on
RaceInputs == {LineGet(k) \o <<NL>> : k \in {"cpus", "ssh-config-path"}}

RaceNext ==
  \/ NewListener(1, DefaultConfig)
  \/ StartListener(1)
  \/ AcceptConn(1)
  \/ \E c \in Cids : ConnSteps(c, RaceInputs)
  \/ \E c \in Cids : GetRLock(c)
  \/ \E c \in Cids : GetRead(c)
  \/ RunStartLock(1)
  \/ RunStartAssign(1)
  \/ RunStartUnlock(1)

RaceSpec == LockStart /\ [][RaceNext]_vars

\* the supervisor of l assigns a field that `config.get` can read
Assigns(l, k) ==
  /\ sup'[l] = sup[l] + 1
  /\ NextOp(l).op = "assign" /\ NextOp(l).key = k
  /\ k \in ConfigKeySet

\* C34: once the Listener serves, every assignment the supervisor makes to a
\* field `config.get` can read is made while it holds ConfigRouter.Lock, so
\* none is made while a get is reading that field.
C34_WritesHoldLock ==
  [][\A l \in Lids, k \in ConfigKeySet :
       Assigns(l, k)
         => /\ cfgMu[l].w
            /\ \A c \in Cids : ~(Reading(c) /\ conn[c].lid = l /\ ArgKey(c) = <<k>>)]_vars

\* an assignment made while a get of the same field is between RLock and RUnlock
C34_NoAssignWhileReading ==
  [][\A l \in Lids, k \in ConfigKeySet :
       Assigns(l, k)
         => \A c \in Cids : ~(Reading(c) /\ conn[c].lid = l /\ ArgKey(c) = <<k>>)]_vars


\* ------------------------------------------- C35: the stop callback
\* the stop callback of Listener l's controller has run and returned
CallbackDone(l) == stopCalls[l] >= 1

\* connection c is inside LocalController.Stop, holding the mutex
InStop(c) == conn[c].pc \in {"stop_check", "stop_set", "stop_call", "stop_unlock"}

\* the status handler on connection c replies
StatusReplies(c) ==
  conn[c].pc = "dispatch" /\ Route(c).handler = "status" /\ conn'[c].pc = "encode"

\* C35: when a Stop call returns the stop callback has run to completion, also
\* for a caller that did not invoke it: while the callback runs no other Stop
\* is past the mutex, and Status reports stopped only after the callback has
\* completed.
C35_StopWaitsForCallback ==
  [][/\ \A c \in Cids : StopReturned(c)' => CallbackDone(conn[c].lid)'
     /\ \A c, d \in Cids :
          (conn'[c].pc = "stop_call" /\ d # c /\ conn'[d].lid = conn'[c].lid) => ~InStop(d)'
     /\ \A c \in Cids :
          (StatusReplies(c) /\ conn'[c].resp = RespMsg(StatusStopped))
            => CallbackDone(conn[c].lid)]_vars

\* a Stop that did not invoke the callback returned after the one that did,
\* and its client read `ok`
C35_Witness ==
  \E c, d \in Cids :
    /\ c # d /\ conn[c].lid = conn[d].lid
    /\ conn[c].invoked /\ ~conn[d].invoked
    /\ StopReturned(d) /\ conn[d].pc = "exited" /\ conn[d].out = RespOK \o <<NL>>
    /\ CallbackDone(conn[d].lid)


\* ------------------------------------- C36: connections are closed
\* C36: every client connection the forwarder accepted and every guest
\* connection it dialed is closed once the connection's handler has exited,
\* whichever way it went (retries used up, stopped while dialing, relay
\* ended), and none is open after Close has returned.
C36_HandlersCloseConnections ==
  /\ \A k \in DOMAIN fc :
       fc[k].hpc = "exited" => fc[k].client = "closed" /\ fc[k].guest # "open"
  /\ fClose = "returned" =>
       \A k \in DOMAIN fc : fc[k].client # "open" /\ fc[k].guest # "open"

\* Close returned after a connection was relayed: both its ends are closed
C36_Witness ==
  /\ fClose = "returned"
  /\ fc[1].hpc = "exited" /\ fc[1].client = "closed" /\ fc[1].guest = "closed"
  /\ fc[1].clientEOF

\* a handler that gave up dialing: the client connection is closed, no guest
\* connection was made
C36_WitnessNoGuest ==
  /\ fc[1].hpc = "exited" /\ fc[1].client = "closed" /\ fc[1].guest = "none"
  /\ fc[1].i = forwarderDialRetries - 1 /\ ~fStop


\* ------------------------------------------------ C37: a failed set
\* the set handler replies on connection c with an error
SetFails(c) ==
  /\ conn[c].pc = "dispatch" /\ Route(c).handler = "set"
  /\ conn'[c].pc = "encode" /\ conn'[c].resp.Error # <<>>

\* what `get k` answers over the configuration v
GetOf(k, v) == handleGet(NewRequest(<<"get", SP, k>>), v)

\* C37: a `set` that fails (unknown key, key that is not Writable, missing
\* key or value) changes no live value: for every key `get` answers the same
\* before and after it.
C37_FailedSetChangesNothing ==
  [][\A c \in Cids :
       SetFails(c)
         => /\ cfg' = cfg
            /\ \A k \in ConfigKeySet \cup {"fake-key"} :
                 GetOf(k, cfg'[conn[c].lid]) = GetOf(k, cfg[conn[c].lid])]_vars

\* a set of a key that is not registered was refused and the client read the error
C37_Witness ==
  \E c \in Cids :
    /\ Served(c, "set") /\ conn[c].pc = "exited"
    /\ ArgKey(c) = <<"fake-key">> /\ ArgValue(c) = <<"val">>
    /\ conn[c].resp.Error # <<>> /\ conn[c].nwrites = 1
    /\ cfg[conn[c].lid] = DefaultConfig


\* ----------------------------------------------- C38: Runner.Stop
\* a Once that runs its function on every call
DoRunsAlways(once) == TRUE

\* sync.Once.Do runs the function on the first call only
DoRuns(once) == once = "idle"

\* startForwarders: sshForward.Start(); ok: net.Listen succeeds
SshStart(ok) ==
  /\ rn.pc = "init"
  /\ rn' = IF ok THEN [rn EXCEPT !.pc = "ssh", !.started = {"ssh"}]
                 ELSE [rn EXCEPT !.pc = "failed"]
  /\ UNCHANGED <<ctlVars, fwdVars, cliVars, wireVars, lockVars, routeVars, ctorVars, supVars>>

\* startForwarders: apiForward.Start(); when it fails sshForward.Close() is
\* called and r.forwarders stays empty
ApiStart(ok) ==
  /\ rn.pc = "ssh"
  /\ rn' = IF ok
           THEN [rn EXCEPT !.pc = "done", !.started = {"ssh", "incus-api"},
                           !.forwarders = ForwarderNames]
           ELSE [rn EXCEPT !.pc = "failed", !.closes["ssh"] = @ + 1]
  /\ UNCHANGED <<ctlVars, fwdVars, cliVars, wireVars, lockVars, routeVars, ctorVars, supVars>>

\* Runner.Stop, called once StartVM has returned: r.stopOnce.Do; a caller that
\* finds the function running waits for it, one that finds it done returns
StopEnter(s) ==
  /\ rn.pc \in {"done", "failed"}
  /\ rn.stop[s] = "idle"
  /\ rn.once # "running" \/ DoRuns(rn.once)
  /\ rn' = IF DoRuns(rn.once)
           THEN [rn EXCEPT !.once = "running", !.stop[s] = "inside", !.idx = 0, !.tries = 0]
           ELSE [rn EXCEPT !.stop[s] = "returned"]
  /\ UNCHANGED <<ctlVars, fwdVars, cliVars, wireVars, lockVars, routeVars, ctorVars, supVars>>

\* Runner.Stop: the loop over r.forwarders calls f.Close()
StopCloseNext(s) ==
  /\ rn.stop[s] = "inside"
  /\ rn.idx < Len(rn.forwarders)
  /\ rn' = [rn EXCEPT !.closes[rn.forwarders[rn.idx + 1]] = @ + 1, !.idx = @ + 1]
  /\ UNCHANGED <<ctlVars, fwdVars, cliVars, wireVars, lockVars, routeVars, ctorVars, supVars>>

\* Runner.Stop: a stop request to the VM, at most three
StopRequest(s) ==
  /\ rn.stop[s] = "inside"
  /\ rn.idx = Len(rn.forwarders)
  /\ rn.tries < 3
  /\ rn' = [rn EXCEPT !.tries = @ + 1]
  /\ UNCHANGED <<ctlVars, fwdVars, cliVars, wireVars, lockVars, routeVars, ctorVars, supVars>>

\* Runner.Stop: the function given to the Once returns (the VM is nil, takes
\* no more requests, or three were sent), and Stop returns
StopFinish(s) ==
  /\ rn.stop[s] = "inside"
  /\ rn.idx = Len(rn.forwarders)
  /\ rn' = [rn EXCEPT !.once = "done", !.stop[s] = "returned"]
  /\ UNCHANGED <<ctlVars, fwdVars, cliVars, wireVars, lockVars, routeVars, ctorVars, supVars>>

RunnerNext ==
  \/ \E ok \in BOOLEAN : SshStart(ok)
  \/ \E ok \in BOOLEAN : ApiStart(ok)
  \/ \E s \in Stoppers : StopEnter(s)
  \/ \E s \in Stoppers : StopCloseNext(s)
  \/ \E s \in Stoppers : StopRequest(s)
  \/ \E s \in Stoppers : StopFinish(s)

RunnerSpec == Init /\ [][RunnerNext]_vars

\* C38: however many Stop calls are made on a Runner, Close is called at most
\* once on each port forwarder, and once a Stop has returned exactly once on
\* each forwarder that was started; when the second forwarder fails to start
\* the first is closed once then and not again by a later Stop.
C38_ForwardersClosedOnce ==
  /\ \A f \in DOMAIN rn.closes : rn.closes[f] <= 1
  /\ (\E s \in Stoppers : rn.stop[s] = "returned")
       => \A f \in DOMAIN rn.closes : rn.closes[f] = IF f \in rn.started THEN 1 ELSE 0
  /\ (rn.pc = "failed" /\ "ssh" \in rn.started) => rn.closes["ssh"] = 1

\* both forwarders started, every caller of Stop returned, each closed once
C38_Witness ==
  /\ rn.started = {"ssh", "incus-api"}
  /\ \A s \in Stoppers : rn.stop[s] = "returned"
  /\ rn.closes["ssh"] = 1 /\ rn.closes["incus-api"] = 1

\* the second forwarder failed to start and Stop was called afterwards
C38_WitnessFailedStart ==
  /\ rn.pc = "failed" /\ rn.started = {"ssh"}
  /\ \A s \in Stoppers : rn.stop[s] = "returned"
  /\ rn.closes["ssh"] = 1


\* ------------------------------------------------- C39: NewRequest
\* the Request has the first word as Command, the key as positional argument
\* "0" and, for a set, the value as positional argument "1"
ParsedAsSent ==
  /\ rt.res.req.Command = rt.words[1]
  /\ Arg(rt.res.req, <<"0">>) = rt.words[2]
  /\ Len(rt.words) = 3 => Arg(rt.res.req, <<"1">>) = rt.words[3]

\* the word has '=' after its first character
Keyed(w) == IndexOf(w, EQ) > 0

\* C39: for `config.set <key> <value>` and `config.get <key>` with any
\* whitespace-free key and value, also ones that contain '=', NewRequest gives
\* the first token as Command, the key as argument "0" and the value as
\* argument "1".
C39_KeyAndValuePositional == rt.op = "parse" => ParsedAsSent

\* the same for keys and values without '=' after their first character
C39_PlainTokensPositional ==
  (rt.op = "parse" /\ \A i \in 2..Len(rt.words) : ~Keyed(rt.words[i])) => ParsedAsSent

====
